---- MODULE Spec2Model ----
(***************************************************************************)
(* State-machine model of the client-side media pipeline:                  *)
(*   - the VideoCompression component driving extractAudioOnly             *)
(*     (native browser extraction with the FFmpeg fallback), and           *)
(*   - transcribeAudio (direct and chunked transcription).                 *)
(* Sizes are byte counts kept as a pair mb/lo (size = mb * 2^20 + lo) so   *)
(* that the 4GB thresholds stay inside TLC's 32-bit integer range.         *)
(***************************************************************************)
EXTENDS Integers, Sequences, FiniteSets, TLC

VARIABLES
  \* ---- environment -------------------------------------------------------
  windowApis,          \* window.Blob / File / FileReader are all defined
  supportedMimeTypes,  \* the types MediaRecorder.isTypeSupported accepts
  ffmpegLoaded,        \* ffmpeg.isLoaded()
  \* ---- VideoCompression component (Sidebar.jsx) --------------------------
  videoFile,           \* size of the videoFile prop
  mounted,
  browserSupport,
  showFallbackUI,
  isCompressing,
  compressionProgress,
  compressionStage,
  compressionSettings,
  compressionResults,
  error,
  completionTimer,     \* the 1000ms timer of startCompression is pending
  \* ---- TranscriptionPage state touched by onCompressionComplete ----------
  showCompressionOption,
  isAudioOnly,
  pageAsset,           \* "original" | "extracted": what the page's videoFile holds
  \* ---- extractAudioOnly call ---------------------------------------------
  callState,           \* "idle" | "pending" | "returned" | "threw"
  caller,              \* "component" | "page": who called and passed the callback
  result,              \* which path produced the blob handed to the caller
  events,              \* every progressCallback(percent, stage) so far
  nativeRuns,          \* calls of nativeBrowserAudioExtraction
  engineRuns,          \* calls of ffmpegAudioExtraction
  \* ---- nativeBrowserAudioExtraction --------------------------------------
  nativePromise,       \* "idle" | "pending" | "resolved" | "rejected"
  videoState,          \* "none" | "loading" | "loaded" | "playRequested" |
                       \* "paused" | "playing" | "ended" | "error"
  currentTime,         \* video.currentTime, 0..VideoDuration
  playbackRate,
  handlersSet,         \* video.onended / video.onerror are installed
  intervalActive,      \* progressInterval is set and not cleared
  ticks,               \* progress events delivered by progressInterval
  recorderState,       \* "none" | "recording" | "inactive"
  selectedMimeType,
  urlLive,             \* the object URL is created and not revoked
  audioCtx,            \* "none" | "open" | "closed"
  stopTimer,           \* the 100ms timer of video.onended is pending
  \* ---- ffmpegAudioExtraction ---------------------------------------------
  engineState,         \* "idle" | "loading" | "fetching" | "running" | "done" | "failed"
  \* ---- transcribeAudio (transcriptionService.js) -------------------------
  audioBlob,           \* size of the audio payload
  options,             \* [hasProgressCallback, duration]; duration 0: not given
  trState,             \* "idle" | "direct" | "chunking" | "done" | "failed"
  trMode,              \* "none" | "direct" | "chunked"
  totalChunks,
  chunkIndex,          \* the loop variable i of transcribeAudioInChunks
  chunks,              \* the segments accumulated so far
  combineOutcomes,     \* the outcomes Math.random() > 0.8 takes in this run
  elapsedTicks,        \* 200ms interval firings of transcribeAudioDirect
  trEvents,            \* every options.progressCallback(percent, stage) so far
  trResult,            \* the array transcribeAudio resolved with
  attempts,            \* times transcribeAudio entered its try block
  trError,             \* the error transcribeAudio rejected with, or "none"
  \* ---- ExportModal (ExportModal.jsx) ------------------------------------
  isOpen,
  selectedExports,     \* per export type: enabled and format
  isExporting,
  exportResults,
  exportError,
  enabledExports,      \* the enabled entries handleExportAll captured
  results,             \* the local results array of handleExportAll
  outcomes,            \* what each exportTranscription call did: TRUE, resolved
  pendingExport,       \* position of the awaited export in enabledExports, or 0
  closeTimers,         \* pending 3000ms timers of handleExportAll
  exportRuns,          \* calls of handleExportAll
  \* ---- TranscriptionPage and TranscriptionPanel --------------------------
  mediaDuration,       \* the duration the player's media element reports
  audioSize,           \* size of the audio an extraction of this file yields
  videoDuration,       \* page state; 0 until loadedmetadata
  isTranscribing,
  pagePhase,           \* startTranscription is "idle" | "extracting" | "transcribing"
  transcriptionData,
  pageError,
  finishTimer,         \* the 500ms timer of startTranscription is pending
  transcriptionRuns,   \* calls of startTranscription
  editedData,          \* the panel's copy of the transcript
  editingId,           \* 0: no segment is being edited
  editText,
  edits,               \* saved edits so far
  \* ---- VideoUpload (Sidebar.jsx) ----------------------------------------
  uploadMounted,       \* the page renders VideoUpload (it has no videoFile)
  isDragOver,
  uploadProgress,
  isUploading,
  uploadError,         \* "null" | "invalid" | "tooLarge"
  showLargeFileWarning,
  warningTimers,       \* pending 5000ms timers of handleFiles
  uploads,             \* per processUpload call: its file, whether its interval
                       \* is set, whether its 500ms timer is pending
  uploadedFiles,       \* the files onFileUpload was called with, in order
  dropped,             \* the file lists handleFiles was called with, in order
  \* ---- the player and the panel's view ----------------------------------
  mediaTime,           \* currentTime of the page's media element
  playerTime,          \* currentTime state of the page
  searchTerm,          \* the panel's search box
  \* ---- the progress bar of the page -------------------------------------
  progress,            \* progress state of the page, in tenths of a percent
  progressLog,         \* every value setProgress was called with in this run
  \* ---- saving to the library and handing the transcript to the export ---
  isSaving,
  saveSuccess,
  transcriptionId,     \* 0: null
  successTimers,       \* pending 3000ms timers of saveToDatabase
  saveCall,            \* "idle" | "getUser" | "insertTranscription" | "insertSegments"
  savePayload,         \* the segments saveTranscriptionToDatabase was called with
  saveOutcomes,        \* per saveTranscription call: "resolved" | "rejected"
  transcriptions,      \* rows of the table transcriptions_73fk5a8d9s
  segmentRows,         \* rows of the table transcription_segments_73fk5a8d9s
  exportData,          \* the transcriptionData the last handleExportAll exported
  \* ---- AuthProvider (AuthContext.jsx) -----------------------------------
  user,                \* "null" | the user of a session
  session,             \* "null" | a session
  isLoading,
  clientSession,       \* the session the supabase client holds
  initPhase,           \* "getCurrentSession" | "getCurrentUser" | "done": where
                       \* initializeAuth is
  answer,              \* "none" | what the awaited call of initializeAuth settled
                       \* with, not yet delivered
  signOutCall          \* "idle" | "pending" | "cleared": where signOut is

envVars    == <<windowApis, supportedMimeTypes>>
compVars   == <<videoFile, mounted, browserSupport, showFallbackUI, isCompressing,
                compressionSettings, compressionResults, error, completionTimer>>
pageVars   == <<showCompressionOption, isAudioOnly, pageAsset>>
progVars   == <<events, compressionProgress, compressionStage>>
callVars   == <<callState, caller, result, nativeRuns, engineRuns>>
mediaVars  == <<videoState, currentTime, playbackRate, handlersSet, intervalActive,
                ticks, recorderState, selectedMimeType, urlLive, audioCtx, stopTimer>>
engineVars == <<nativePromise, engineState, ffmpegLoaded>>

extractVars == <<envVars, compVars, pageVars, progVars, callVars, mediaVars, engineVars>>

transcribeVars == <<audioBlob, options, combineOutcomes, trState, trMode, totalChunks,
                    chunkIndex, chunks, elapsedTicks, trEvents, trResult, attempts,
                    trError>>

exportVars == <<isOpen, selectedExports, isExporting, exportResults, exportError,
                enabledExports, results, outcomes, pendingExport, closeTimers,
                exportRuns>>

sessionVars == <<mediaDuration, audioSize, videoDuration, isTranscribing, pagePhase,
                 transcriptionData, pageError, finishTimer, transcriptionRuns,
                 editedData, editingId, editText, edits>>

uploadVars == <<uploadMounted, isDragOver, uploadProgress, isUploading, uploadError,
                showLargeFileWarning, warningTimers, uploads, uploadedFiles, dropped>>

viewVars == <<mediaTime, playerTime, searchTerm>>

workflowVars == <<progress, progressLog>>

libraryVars == <<isSaving, saveSuccess, transcriptionId, successTimers, saveCall,
                 savePayload, saveOutcomes, transcriptions, segmentRows, exportData>>

\* The parts of the application around the media pipeline.
authVars == <<user, session, isLoading, clientSession, initPhase, answer, signOutCall>>

shellVars == <<uploadVars, viewVars, workflowVars, libraryVars, authVars>>

\* ---------------------------------------------------------------- bounds
\* Length of the source video in playback positions.
VideoDuration == 3
\* Progress events the 100ms polling interval may deliver in one run.
MaxTicks == 3
\* Times the user presses "Export" in one session.
MaxExportRuns == 1
\* Times the user presses "Start Transcription" in one session.
MaxTranscriptionRuns == 2
\* Edits the user saves in one session.
MaxEdits == 1
\* File lists the user hands to VideoUpload (drops and selections).
MaxDrops == 2
\* Times the user presses "Save to Library" in one session.
MaxSaves == 1

\* ---------------------------------------------------------------- sizes
Bytes(mb, lo) == [mb |-> mb, lo |-> lo]

\* size > mb * 1024 * 1024
SizeGT(size, mb) == size.mb > mb \/ (size.mb = mb /\ size.lo > 0)

FileSizes ==
  {Bytes(m, l) : m \in {100, 500, 512, 600, 1024, 2048, 4096}, l \in {0, 1}}
    \cup {Bytes(0, 0), Bytes(3 * 1024, 0), Bytes(5 * 1024, 0)}

\* ------------------------------------------------------- compressionService
isCompressionSupported == windowApis

Settings(q, w, h, f, a) ==
  [quality |-> q, maxWidth |-> w, maxHeight |-> h, frameRate |-> f, audioBitrate |-> a]

DefaultCompressionSettings == Settings("medium", 1280, 720, 30, "128k")

\* The tiers with the medium threshold taken at half a gigabyte.
getRecommendedCompressionSettings_HalfGB(fileSizeBytes) ==
  IF SizeGT(fileSizeBytes, 4 * 1024) THEN Settings("low", 854, 480, 24, "96k")
  ELSE IF SizeGT(fileSizeBytes, 2 * 1024) THEN Settings("low", 1280, 720, 24, "128k")
  ELSE IF SizeGT(fileSizeBytes, 512) THEN Settings("medium", 1280, 720, 30, "128k")
  ELSE Settings("high", 1920, 1080, 30, "192k")

\* The tiers with every threshold taken inclusively.
getRecommendedCompressionSettings_Inclusive(fileSizeBytes) ==
  IF fileSizeBytes.mb >= 4 * 1024 THEN Settings("low", 854, 480, 24, "96k")
  ELSE IF fileSizeBytes.mb >= 2 * 1024 THEN Settings("low", 1280, 720, 24, "128k")
  ELSE IF fileSizeBytes.mb >= 1024 THEN Settings("medium", 1280, 720, 30, "128k")
  ELSE Settings("high", 1920, 1080, 30, "192k")

\* The tiers with a medium tier above 4GB.
getRecommendedCompressionSettings_MediumOver4GB(fileSizeBytes) ==
  IF SizeGT(fileSizeBytes, 4 * 1024) THEN Settings("medium", 1280, 720, 30, "128k")
  ELSE IF SizeGT(fileSizeBytes, 2 * 1024) THEN Settings("low", 1280, 720, 24, "128k")
  ELSE IF SizeGT(fileSizeBytes, 1024) THEN Settings("medium", 1280, 720, 30, "128k")
  ELSE Settings("high", 1920, 1080, 30, "192k")

getRecommendedCompressionSettings(fileSizeBytes) ==
  IF SizeGT(fileSizeBytes, 4 * 1024) THEN Settings("low", 854, 480, 24, "96k")
  ELSE IF SizeGT(fileSizeBytes, 2 * 1024) THEN Settings("low", 1280, 720, 24, "128k")
  ELSE IF SizeGT(fileSizeBytes, 1024) THEN Settings("medium", 1280, 720, 30, "128k")
  ELSE Settings("high", 1920, 1080, 30, "192k")

\* The ordered preference list of nativeBrowserAudioExtraction.
mimeTypes ==
  <<"audio/webm;codecs=opus", "audio/webm", "audio/ogg;codecs=opus", "audio/ogg", "audio/mp4">>

RECURSIVE FirstSupported(_, _)
FirstSupported(i, supported) ==
  IF i > Len(mimeTypes) THEN "audio/webm"
  ELSE IF mimeTypes[i] \in supported THEN mimeTypes[i]
  ELSE FirstSupported(i + 1, supported)

SelectMimeType(supported) == FirstSupported(1, supported)

\* Environments for MediaRecorder.isTypeSupported.
CodecEnvs == { {}, {"audio/mp4"}, {"audio/webm;codecs=opus", "audio/webm"} }

PlaybackRateFor(size) ==
  IF SizeGT(size, 2 * 1024) THEN 16
  ELSE IF SizeGT(size, 1024) THEN 8
  ELSE IF SizeGT(size, 512) THEN 4
  ELSE 2

\* ---------------------------------------------------------------- progress
Emit(ev, percent, stage) == Append(ev, [percent |-> percent, stage |-> stage])

\* progressCallback of the caller who: the callback of startCompression
\* makes the component show the last event; the page's callback keeps its
\* own progress.
SetProgressFor(who, ev) ==
  /\ events' = ev
  /\ IF who = "component"
       THEN /\ compressionProgress' = IF ev = <<>> THEN 0 ELSE ev[Len(ev)].percent
            /\ compressionStage' = IF ev = <<>> THEN "" ELSE ev[Len(ev)].stage
       ELSE UNCHANGED <<compressionProgress, compressionStage>>

\* progressCallback of the run under way
SetProgress(ev) == SetProgressFor(caller, ev)


\* ------------------------------------------------- startCompression: outcomes
NoResults == [audioOnly |-> FALSE, blob |-> "none"]

\* extractAudioOnly resolved with the blob of path `kind`: startCompression
\* builds the results and arms the 1000ms completion timer.
Returned(kind, ev) ==
  /\ callState' = "returned"
  /\ result' = kind
  /\ IF caller = "component"
       THEN /\ compressionResults' = [audioOnly |-> TRUE, blob |-> kind]
            /\ completionTimer' = TRUE
       ELSE UNCHANGED <<compressionResults, completionTimer>>
  /\ SetProgress(ev)
  /\ UNCHANGED <<caller, error, isCompressing, showFallbackUI>>

\* extractAudioOnly rejected: the catch block of startCompression.
Threw(ev) ==
  /\ callState' = "threw"
  /\ IF caller = "component"
       THEN /\ error' = "Processing failed: FFmpeg audio extraction failed"
            /\ isCompressing' = FALSE
            /\ showFallbackUI' = TRUE
       ELSE UNCHANGED <<error, isCompressing, showFallbackUI>>
  /\ SetProgress(ev)
  /\ UNCHANGED <<caller, result, compressionResults, completionTimer>>

\* ------------------------------------------------------ ffmpegAudioExtraction
\* Entry of ffmpegAudioExtraction up to its first real suspension.
StartEngineFor(who, ev) ==
  /\ engineRuns' = engineRuns + 1
  /\ IF ffmpegLoaded
       THEN /\ engineState' = "fetching"
            /\ SetProgressFor(who, Emit(ev, 20, "Using FFmpeg fallback..."))
       ELSE /\ engineState' = "loading"
            /\ SetProgressFor(who, ev)
  /\ UNCHANGED ffmpegLoaded

StartEngine(ev) == StartEngineFor(caller, ev)

\* An engine failure that starts the engine over instead of rethrowing.
EngineFail_Retry(ev) ==
  /\ engineState' = IF engineRuns < 2 THEN "fetching" ELSE "failed"
  /\ engineRuns' = IF engineRuns < 2 THEN engineRuns + 1 ELSE engineRuns
  /\ IF engineRuns < 2
       THEN /\ SetProgress(ev)
            /\ UNCHANGED <<callState, caller, error, isCompressing, showFallbackUI,
                           result, compressionResults, completionTimer>>
       ELSE Threw(ev)
  /\ UNCHANGED <<nativeRuns, nativePromise, ffmpegLoaded>>

\* The catch block of ffmpegAudioExtraction rethrows; extractAudioOnly has
\* no handler left, so the caller sees the error.
EngineFail(ev) ==
  /\ engineState' = "failed"
  /\ Threw(ev)
  /\ UNCHANGED <<nativeRuns, engineRuns, nativePromise, ffmpegLoaded>>

EngineLoaded ==
  /\ engineState = "loading"
  /\ ffmpegLoaded' = TRUE
  /\ engineState' = "fetching"
  /\ SetProgress(Emit(events, 20, "Using FFmpeg fallback..."))
  /\ UNCHANGED <<envVars, compVars, pageVars, callVars, mediaVars, nativePromise>>

EngineLoadFailed ==
  /\ engineState = "loading"
  /\ EngineFail(events)
  /\ UNCHANGED <<envVars, pageVars, mediaVars, videoFile, mounted, browserSupport,
                 compressionSettings>>

EngineFetched ==
  /\ engineState = "fetching"
  /\ engineState' = "running"
  /\ SetProgress(Emit(events, 40, "Processing with FFmpeg..."))
  /\ UNCHANGED <<envVars, compVars, pageVars, callVars, mediaVars, nativePromise, ffmpegLoaded>>

EngineFetchFailed ==
  /\ engineState = "fetching"
  /\ EngineFail(events)
  /\ UNCHANGED <<envVars, pageVars, mediaVars, videoFile, mounted, browserSupport,
                 compressionSettings>>

\* The engine's success path without its final progressCallback(100).
EngineRan_NoFinalCallback ==
  /\ engineState = "running"
  /\ engineState' = "done"
  /\ Returned("engine", Emit(events, 80, "Reading extracted audio..."))
  /\ UNCHANGED <<envVars, pageVars, mediaVars, videoFile, mounted, browserSupport,
                 compressionSettings, nativeRuns, engineRuns, nativePromise, ffmpegLoaded>>

EngineRan ==
  /\ engineState = "running"
  /\ engineState' = "done"
  /\ Returned("engine",
              Emit(Emit(events, 80, "Reading extracted audio..."),
                   100, "FFmpeg audio extraction complete"))
  /\ UNCHANGED <<envVars, pageVars, mediaVars, videoFile, mounted, browserSupport,
                 compressionSettings, nativeRuns, engineRuns, nativePromise, ffmpegLoaded>>

\* ffmpeg.run rejects (readAfter = FALSE) or FS('readFile') throws after the
\* 80% callback (readAfter = TRUE).
EngineRunFailed ==
  /\ engineState = "running"
  /\ \E readAfter \in BOOLEAN :
       EngineFail(IF readAfter THEN Emit(events, 80, "Reading extracted audio...")
                  ELSE events)
  /\ UNCHANGED <<envVars, pageVars, mediaVars, videoFile, mounted, browserSupport,
                 compressionSettings>>

\* ----------------------------------------------- nativeBrowserAudioExtraction
\* reject(...) of the native promise while it is unsettled: the catch block
\* of extractAudioOnly runs and calls ffmpegAudioExtraction.
RejectNative(ev) ==
  /\ nativePromise' = "rejected"
  /\ StartEngine(ev)
  /\ UNCHANGED <<callState, caller, result, nativeRuns>>

\* reject(...) on a promise that may already be settled (then it is a no-op).
SettleReject(ev) ==
  IF nativePromise = "pending"
    THEN RejectNative(ev)
    ELSE /\ SetProgress(ev)
         /\ UNCHANGED <<callVars, engineVars>>

\* extractAudioOnly(videoFile, progressCallback) called by who, up to its
\* first suspension, after the events ev0 of its caller: progressCallback(5), then the
\* synchronous body of the native promise executor. setupThrows:
\* document.createElement or URL.createObjectURL throws.
ExtractAudioOnly(who, ev0, setupThrows) ==
  /\ caller' = who
  /\ nativeRuns' = nativeRuns + 1
  /\ callState' = "pending"
  /\ LET ev == Emit(Emit(ev0, 5, "Initializing fast audio extraction..."),
                     10, "Setting up native audio processing...")
     IN IF setupThrows
          THEN /\ nativePromise' = "rejected"
               /\ StartEngineFor(who, ev)
               /\ UNCHANGED <<videoState, urlLive>>
          ELSE /\ nativePromise' = "pending"
               /\ videoState' = "loading"
               /\ urlLive' = TRUE
               /\ SetProgressFor(who, ev)
               /\ UNCHANGED <<engineState, engineRuns, ffmpegLoaded>>
  /\ UNCHANGED <<result, currentTime, playbackRate, handlersSet, intervalActive, ticks,
                 recorderState, selectedMimeType, audioCtx, stopTimer>>

\* startCompression up to the first suspension of extractAudioOnly: the
\* state resets and extractAudioOnly is called with the component's callback.
StartCompression(setupThrows) ==
  /\ isCompressing' = TRUE
  /\ error' = "null"
  /\ compressionResults' = NoResults
  /\ ExtractAudioOnly("component", events, setupThrows)
  /\ UNCHANGED completionTimer

\* Both mount effects of VideoCompression: the capability probe with the
\* auto-start for files over 500MB, then the recommended settings.
Mount ==
  /\ showCompressionOption
  /\ ~mounted
  /\ mounted' = TRUE
  /\ browserSupport' = isCompressionSupported
  /\ compressionSettings' = getRecommendedCompressionSettings(videoFile)
  /\ showFallbackUI' = (showFallbackUI \/ ~isCompressionSupported)
  /\ IF SizeGT(videoFile, 500)
       THEN \E setupThrows \in BOOLEAN : StartCompression(setupThrows)
       ELSE UNCHANGED <<isCompressing, error, compressionResults, completionTimer,
                       progVars, callVars, mediaVars, engineVars>>
  /\ UNCHANGED <<envVars, pageVars, videoFile>>

\* The "Extract Audio" button: rendered only without the fallback UI and
\* without results, disabled while isCompressing.
ClickStart ==
  /\ mounted
  /\ ~showFallbackUI
  /\ compressionResults = NoResults
  /\ ~isCompressing
  /\ \E setupThrows \in BOOLEAN : StartCompression(setupThrows)
  /\ UNCHANGED <<envVars, pageVars, videoFile, mounted, browserSupport, showFallbackUI,
                 compressionSettings>>

\* video.onloadedmetadata. failAt is where its try block throws, if at all;
\* the MediaRecorder constructor throws when the selected type is unsupported.
OnLoadedMetadata(failAt) ==
  /\ videoState = "loading"
  /\ LET ev20 == Emit(events, 20, "Preparing audio extraction...")
         ev30 == Emit(ev20, 30, "Starting optimized audio extraction...")
         mime == SelectMimeType(supportedMimeTypes)
     IN CASE failAt = "AudioContext" ->
               /\ videoState' = "loaded"
               /\ urlLive' = FALSE
               /\ SettleReject(ev20)
               /\ UNCHANGED <<audioCtx, selectedMimeType, intervalActive, handlersSet,
                              recorderState, playbackRate>>
          [] failAt # "AudioContext" /\ mime \notin supportedMimeTypes ->
               /\ videoState' = "loaded"
               /\ audioCtx' = "open"
               /\ selectedMimeType' = mime
               /\ urlLive' = FALSE
               /\ SettleReject(ev30)
               /\ UNCHANGED <<intervalActive, handlersSet, recorderState, playbackRate>>
          [] failAt = "recorder.start" /\ mime \in supportedMimeTypes ->
               /\ videoState' = "loaded"
               /\ audioCtx' = "open"
               /\ selectedMimeType' = mime
               /\ recorderState' = "inactive"
               /\ intervalActive' = TRUE
               /\ handlersSet' = TRUE
               /\ urlLive' = FALSE
               /\ SettleReject(ev30)
               /\ UNCHANGED playbackRate
          [] OTHER ->
               /\ videoState' = "playRequested"
               /\ audioCtx' = "open"
               /\ selectedMimeType' = mime
               /\ recorderState' = "recording"
               /\ intervalActive' = TRUE
               /\ handlersSet' = TRUE
               /\ playbackRate' = PlaybackRateFor(videoFile)
               /\ SetProgress(ev30)
               /\ UNCHANGED <<urlLive, callVars, engineVars>>
  /\ UNCHANGED <<envVars, compVars, pageVars, currentTime, ticks, stopTimer>>

\* The media element fires "error". video.onerror exists only once
\* onloadedmetadata has installed it.
VideoError ==
  /\ videoState \in {"loading", "loaded", "playRequested", "paused", "playing"}
  /\ videoState' = "error"
  /\ IF handlersSet
       THEN /\ intervalActive' = FALSE
            /\ urlLive' = FALSE
            /\ SettleReject(events)
       ELSE UNCHANGED <<intervalActive, urlLive, progVars, callVars, engineVars>>
  /\ UNCHANGED <<envVars, compVars, pageVars, currentTime, playbackRate, handlersSet,
                 ticks, recorderState, selectedMimeType, audioCtx, stopTimer>>

\* video.play() resolves: playback has begun.
PlayStarted ==
  /\ videoState = "playRequested"
  /\ videoState' = "playing"
  /\ UNCHANGED <<envVars, compVars, pageVars, progVars, callVars, engineVars,
                 currentTime, playbackRate, handlersSet, intervalActive, ticks,
                 recorderState, selectedMimeType, urlLive, audioCtx, stopTimer>>

\* video.play().catch(reject): playback never begins.
PlayRejected ==
  /\ videoState = "playRequested"
  /\ videoState' = "paused"
  /\ SettleReject(events)
  /\ UNCHANGED <<envVars, compVars, pageVars, currentTime, playbackRate, handlersSet,
                 intervalActive, ticks, recorderState, selectedMimeType, urlLive,
                 audioCtx, stopTimer>>

PlaybackAdvance ==
  /\ videoState = "playing"
  /\ currentTime < VideoDuration
  /\ currentTime' = currentTime + 1
  /\ UNCHANGED <<envVars, compVars, pageVars, progVars, callVars, engineVars,
                 videoState, playbackRate, handlersSet, intervalActive, ticks,
                 recorderState, selectedMimeType, urlLive, audioCtx, stopTimer>>

\* One firing of progressInterval.
ProgressTick ==
  /\ intervalActive
  /\ ticks < MaxTicks
  /\ IF currentTime # 0
       THEN /\ SetProgress(Emit(events, 30 + (currentTime * 60) \div VideoDuration,
                                "Extracting audio..."))
            /\ ticks' = ticks + 1
       ELSE UNCHANGED <<progVars, ticks>>
  /\ UNCHANGED <<envVars, compVars, pageVars, callVars, engineVars,
                 videoState, currentTime, playbackRate, handlersSet, intervalActive,
                 recorderState, selectedMimeType, urlLive, audioCtx, stopTimer>>

\* video.onended
VideoEnded ==
  /\ videoState = "playing"
  /\ currentTime = VideoDuration
  /\ videoState' = "ended"
  /\ intervalActive' = FALSE
  /\ stopTimer' = TRUE
  /\ SetProgress(Emit(events, 90, "Finalizing audio extraction..."))
  /\ UNCHANGED <<envVars, compVars, pageVars, callVars, engineVars, currentTime,
                 playbackRate, handlersSet, ticks, recorderState, selectedMimeType,
                 urlLive, audioCtx>>

\* The 100ms timer calls recorder.stop(); recorder.onstop builds the blob,
\* cleans up, reports 100 and resolves.
RecorderStop ==
  /\ stopTimer
  /\ stopTimer' = FALSE
  /\ recorderState' = "inactive"
  /\ urlLive' = FALSE
  /\ audioCtx' = "closed"
  /\ LET ev == Emit(events, 100, "Audio extracted") IN
       IF nativePromise = "pending"
         THEN /\ nativePromise' = "resolved"
              /\ Returned("native", ev)
              /\ UNCHANGED <<nativeRuns, engineRuns, engineState, ffmpegLoaded>>
         ELSE /\ SetProgress(ev)
              /\ UNCHANGED <<callVars, engineVars, compressionResults, completionTimer,
                             error, isCompressing, showFallbackUI>>
  /\ UNCHANGED <<envVars, pageVars, videoFile, mounted, browserSupport,
                 compressionSettings, videoState, currentTime, playbackRate,
                 handlersSet, intervalActive, ticks, selectedMimeType>>

\* The 1000ms timer of startCompression: onCompressionComplete is the page's
\* handleCompressionComplete, which swaps the asset and hides the component.
CompletionTimer ==
  /\ completionTimer
  /\ completionTimer' = FALSE
  /\ isCompressing' = FALSE
  /\ pageAsset' = "extracted"
  /\ showCompressionOption' = FALSE
  /\ isAudioOnly' = compressionResults.audioOnly
  /\ mounted' = FALSE
  /\ UNCHANGED <<envVars, progVars, callVars, mediaVars, engineVars, videoFile,
                 browserSupport, showFallbackUI, compressionSettings,
                 compressionResults, error>>

\* ----------------------------------------------------------- Number (times)
\* The times of the transcription service are JavaScript Numbers: IEEE-754
\* doubles, every operation rounded to nearest, ties to even. The times in
\* play are multiples of 2^-52 s below 2^20 s; one is kept as its count of
\* 2^-52 s, written as three digits of base 2^24, most significant first.
Limb == 2 ^ 24

\* Significand bits of a double.
Precision == 53

\* The Number n, for an integer 0 <= n < 2^20.
FromInt(n) == <<n * 16, 0, 0>>

\* a < b
NumLess(a, b) ==
  \/ a[1] < b[1]
  \/ a[1] = b[1] /\ a[2] < b[2]
  \/ a[1] = b[1] /\ a[2] = b[2] /\ a[3] < b[3]

\* Math.min(a, b)
NumMin(a, b) == IF NumLess(b, a) THEN b ELSE a

RECURSIVE Bits(_)
Bits(n) == IF n = 0 THEN 0 ELSE 1 + Bits(n \div 2)

BitLength(a) ==
  IF a[1] > 0 THEN 48 + Bits(a[1])
  ELSE IF a[2] > 0 THEN 24 + Bits(a[2])
  ELSE Bits(a[3])

\* The exact sum, difference (a >= b) and product by a small integer.
ExactAdd(a, b) ==
  LET s0 == a[3] + b[3]
      s1 == a[2] + b[2] + s0 \div Limb
  IN <<a[1] + b[1] + s1 \div Limb, s1 % Limb, s0 % Limb>>

ExactSub(a, b) ==
  LET d0 == a[3] - b[3]
      b0 == IF d0 < 0 THEN 1 ELSE 0
      d1 == a[2] - b[2] - b0
      b1 == IF d1 < 0 THEN 1 ELSE 0
  IN <<a[1] - b[1] - b1, d1 + b1 * Limb, d0 + b0 * Limb>>

ExactMul(i, a) ==
  LET p0 == i * a[3]
      p1 == i * a[2] + p0 \div Limb
  IN <<i * a[1] + p1 \div Limb, p1 % Limb, p0 % Limb>>

\* The double nearest to the exact value a (plus a fraction of its last
\* place when sticky), ties to even.
RoundToDouble(a, sticky) ==
  LET drop == BitLength(a) - Precision IN
    IF drop <= 0 THEN a
    ELSE LET unit == 2 ^ drop
             low == a[3] % unit
             half == unit \div 2
             down == <<a[1], a[2], a[3] - low>>
             odd == (a[3] \div unit) % 2 = 1
         IN IF low > half \/ (low = half /\ (sticky \/ odd))
              THEN ExactAdd(down, <<0, 0, unit>>)
              ELSE down

\* a + b, a - b (a >= b) and i * a as JavaScript computes them.
NumAdd(a, b) == RoundToDouble(ExactAdd(a, b), FALSE)
NumSub(a, b) == RoundToDouble(ExactSub(a, b), FALSE)
NumMul(i, a) == RoundToDouble(ExactMul(i, a), FALSE)

\* a / n for a small integer n with 1 <= a / n: the quotient is taken to
\* 2^-60 s by long division, rounded, and brought back to 2^-52 s.
NumDiv(a, n) ==
  LET n2 == a[1] * 256 + a[2] \div 65536
      n1 == (a[2] % 65536) * 256 + a[3] \div 65536
      n0 == (a[3] % 65536) * 256
      q2 == n2 \div n
      c1 == (n2 % n) * Limb + n1
      q1 == c1 \div n
      c0 == (c1 % n) * Limb + n0
      q0 == c0 \div n
      r == RoundToDouble(<<q2, q1, q0>>, c0 % n # 0)
  IN <<r[1] \div 256, (r[1] % 256) * 65536 + r[2] \div 256,
       (r[2] % 256) * 65536 + r[3] \div 256>>

\* Math.floor(a / 8) and Math.ceil(a / 8); a / 8 itself is exact.
FloorDiv8(a) == a[1] \div 128
CeilDiv8(a) ==
  FloorDiv8(a) + (IF a[1] % 128 # 0 \/ a[2] # 0 \/ a[3] # 0 THEN 1 ELSE 0)

\* ------------------------------------------------------ transcriptionService
Min(a, b) == IF a < b THEN a ELSE b

\* The phrases array of generateOptimizedTranscription has 25 entries.
NumPhrases == 25
\* avgSegmentDuration, in seconds.
AvgSegmentDuration == 8

\* The values of avgSegmentDuration + (Math.random() * 4 - 2) the model draws:
\* the least one, 6, and 9.5.
SegmentDurations == {FromInt(AvgSegmentDuration - 2), NumDiv(FromInt(19), 2)}

\* One loop iteration's two Math.random() outcomes: the segment duration and
\* whether Math.random() > 0.8 asks for a combined phrase.
Draws == [dur : SegmentDurations, combine : combineOutcomes]

\* The loop of generateOptimizedTranscription from iteration i on; segStart
\* is the loop's local currentTime and limit is startOffset + duration.
RECURSIVE GenLoop(_, _, _, _, _, _, _)
GenLoop(i, segStart, segmentId, segments, segmentCount, limit, draws) ==
  IF i < segmentCount /\ NumLess(segStart, limit)
    THEN LET segmentDuration == NumMin(draws[i + 1].dur, NumSub(limit, segStart))
             endTime == NumAdd(segStart, segmentDuration)
             phraseIndex == (segmentId - 1) % NumPhrases
             text == IF draws[i + 1].combine /\ i < segmentCount - 1
                       THEN <<phraseIndex, (phraseIndex + 1) % NumPhrases>>
                       ELSE <<phraseIndex>>
         IN GenLoop(i + 1, endTime, segmentId + 1,
                    Append(segments, [id |-> segmentId, startTime |-> segStart,
                                      endTime |-> endTime, text |-> text]),
                    segmentCount, limit, draws)
    ELSE segments

\* Math.ceil(duration / avgSegmentDuration)
SegmentCount(duration) == CeilDiv8(duration)

\* generateOptimizedTranscription(duration, startOffset); draws[k] holds the
\* random outcomes of iteration k - 1.
generateOptimizedTranscription(duration, startOffset, draws) ==
  GenLoop(0, startOffset, FloorDiv8(startOffset) + 1, <<>>,
          SegmentCount(duration), NumAdd(startOffset, duration), draws)

\* options.duration || 60
DurationOr60(opts) == IF opts.duration = 0 THEN 60 ELSE opts.duration

\* chunkDuration of transcribeAudioInChunks
ChunkDuration(opts, n) == NumDiv(FromInt(DurationOr60(opts)), n)

\* audioSizeMB > 25
isLargeAudio(blob) == SizeGT(blob, 25)

\* The mode test of transcribeAudio.
UseChunks(blob, opts) == isLargeAudio(blob) /\ opts.hasProgressCallback

\* Math.ceil(audioBlob.size / chunkSize) with 20MB chunks.
ChunkCount(blob) ==
  (blob.mb \div 20) + (IF blob.mb % 20 > 0 \/ blob.lo > 0 THEN 1 ELSE 0)

\* baseProcessingTime of transcribeAudioDirect in milliseconds.
BaseProcessingTime(blob) == Min(blob.mb * 50 + (blob.lo * 50) \div 1048576, 3000)

\* opts.progressCallback(percent, stage); without a callback nothing is
\* delivered.
Report(opts, ev, percent, stage) ==
  IF opts.hasProgressCallback THEN Emit(ev, percent, stage) ELSE ev

\* One iteration of the chunk loop for chunk i: its progress callback and
\* the segments it pushes onto acc, up to the 100ms pause.
ProcessChunk(i, n, opts, ev, acc, draws) ==
  /\ chunkIndex' = i
  /\ trEvents' = Report(opts, ev, 25 + (i * 60) \div n, "Processing chunk...")
  /\ chunks' = acc \o generateOptimizedTranscription(
                         ChunkDuration(opts, n),
                         NumMul(i, ChunkDuration(opts, n)), draws)

\* transcribeAudio(blob, opts) up to its first suspension; ev holds the
\* progress events delivered before the call.
TranscribeCall(blob, opts, ev) ==
  /\ attempts' = attempts + 1
  /\ elapsedTicks' = 0
  /\ LET ev10 == Report(opts, ev, 10, "Preparing transcription...") IN
       IF UseChunks(blob, opts)
         THEN LET n == ChunkCount(blob)
                  ev25 == Report(opts,
                                 Report(opts, ev10, 20,
                                        "Processing large audio file with chunking..."),
                                 25, "Processing audio chunks...")
              IN /\ trMode' = "chunked"
                 /\ trState' = "chunking"
                 /\ totalChunks' = n
                 /\ \E draws \in [1..SegmentCount(ChunkDuration(opts, n)) -> Draws] :
                      ProcessChunk(0, n, opts, ev25, <<>>, draws)
         ELSE /\ trMode' = "direct"
              /\ trState' = "direct"
              /\ trEvents' = Report(opts, ev10, 30, "Sending audio for transcription...")
              /\ totalChunks' = 0
              /\ chunkIndex' = 0
              /\ chunks' = <<>>

\* A call of transcribeAudio on its own.
TranscribeAudio ==
  /\ trState = "idle"
  /\ TranscribeCall(audioBlob, options, trEvents)
  /\ UNCHANGED <<audioBlob, options, combineOutcomes, trResult, trError>>

\* The 100ms pause after a chunk is over: the next chunk, or the end of
\* transcribeAudioInChunks.
ChunkTimer ==
  /\ trState = "chunking"
  /\ IF chunkIndex + 1 < totalChunks
       THEN /\ \E draws \in [1..SegmentCount(ChunkDuration(options, totalChunks))
                                -> Draws] :
                 ProcessChunk(chunkIndex + 1, totalChunks, options, trEvents, chunks,
                              draws)
            /\ UNCHANGED <<trState, trResult>>
       ELSE /\ trEvents' = Report(options, trEvents, 90, "Combining chunk results...")
            /\ trResult' = chunks
            /\ trState' = "done"
            /\ UNCHANGED <<chunkIndex, chunks>>
  /\ UNCHANGED <<audioBlob, options, combineOutcomes, trMode, totalChunks, elapsedTicks,
                 attempts, trError>>

\* One firing of the 200ms progress interval of transcribeAudioDirect; the
\* interval fires while the processing timeout has not expired.
DirectTick ==
  /\ trState = "direct"
  /\ (elapsedTicks + 1) * 200 <= BaseProcessingTime(audioBlob)
  /\ elapsedTicks' = elapsedTicks + 1
  /\ trEvents' = Report(options, trEvents,
                        30 + Min(((elapsedTicks + 1) * 200 * 60)
                                   \div BaseProcessingTime(audioBlob), 60),
                        "Processing speech recognition...")
  /\ UNCHANGED <<audioBlob, options, combineOutcomes, trState, trMode, totalChunks,
                 chunkIndex, chunks, trResult, attempts, trError>>

\* The processing timeout of transcribeAudioDirect expires.
DirectDone ==
  /\ trState = "direct"
  /\ (elapsedTicks + 1) * 200 > BaseProcessingTime(audioBlob)
  /\ trEvents' = Report(options, trEvents, 90, "Finalizing transcription...")
  /\ \E draws \in [1..SegmentCount(FromInt(DurationOr60(options))) -> Draws] :
       trResult' = generateOptimizedTranscription(FromInt(DurationOr60(options)),
                                                  FromInt(0), draws)
  /\ trState' = "done"
  /\ UNCHANGED <<audioBlob, options, combineOutcomes, trMode, totalChunks, chunkIndex,
                 chunks, elapsedTicks, attempts, trError>>

\* An error object: its code and its message as a sequence of words.
Failure(code, message) == [code |-> code, message |-> message]

\* The errors a progress callback throws in the model.
Failures ==
  {Failure("ECONNABORTED", <<"timeout", "of", "120000ms", "exceeded">>),
   Failure("ECONNABORTED", <<"Request", "aborted">>),
   Failure("none", <<"timeout", "exceeded">>),
   Failure("none", <<"Network", "Error">>),
   Failure("ERR_BAD_RESPONSE", <<"Request", "failed", "with", "status", "code", "500">>)}

\* message.includes(word), for a word of the message
Includes(message, word) == \E k \in 1..Len(message) : message[k] = word

TimedOut == "Transcription timed out. Large files may require longer processing time."
FailedToTranscribe == "Failed to transcribe audio. Please try again or use a smaller file."

\* The catch block of transcribeAudio that tests the error code only.
CatchTranscription_CodeOnly(err) ==
  IF err.code = "ECONNABORTED" THEN TimedOut ELSE FailedToTranscribe

\* The catch block of transcribeAudio: the error it throws for err.
CatchTranscription(err) ==
  IF err.code = "ECONNABORTED" \/ Includes(err.message, "timeout")
    THEN TimedOut
    ELSE FailedToTranscribe

\* options.progressCallback throws err when the run resumes after a pause
\* (the 90% callback of transcribeAudioDirect, a chunk's callback or the 90%
\* callback of transcribeAudioInChunks): the exception reaches the catch
\* block of transcribeAudio, which throws in its turn.
TranscribeThrows(err) ==
  /\ trState \in {"direct", "chunking"}
  /\ options.hasProgressCallback
  /\ trState = "direct" => (elapsedTicks + 1) * 200 > BaseProcessingTime(audioBlob)
  /\ trState' = "failed"
  /\ trError' = [cause |-> err, message |-> CatchTranscription(err)]
  /\ UNCHANGED <<audioBlob, options, combineOutcomes, trMode, totalChunks, chunkIndex,
                 chunks, elapsedTicks, trEvents, trResult, attempts>>

\* ---------------------------------------------------------- TranscriptionPage
\* cancelCompression: the component is unmounted; a run it has started is
\* not told to stop.
cancelCompression ==
  /\ showCompressionOption
  /\ mounted
  /\ showCompressionOption' = FALSE
  /\ mounted' = FALSE
  /\ UNCHANGED <<envVars, progVars, callVars, mediaVars, engineVars, isAudioOnly,
                 pageAsset, videoFile, browserSupport, showFallbackUI, isCompressing,
                 compressionSettings, compressionResults, error, completionTimer>>
  /\ UNCHANGED <<transcribeVars, sessionVars>>

\* loadedmetadata of the player, rendered once the compression option is gone.
handleMetadataLoaded ==
  /\ ~showCompressionOption
  /\ videoDuration # mediaDuration
  /\ videoDuration' = mediaDuration
  /\ UNCHANGED <<mediaDuration, audioSize, isTranscribing, pagePhase, transcriptionData,
                 pageError, finishTimer, transcriptionRuns, editedData, editingId,
                 editText, edits>>
  /\ UNCHANGED <<extractVars, transcribeVars>>

\* startTranscription calls transcribeAudio on the audio.
CallTranscribeAudio ==
  /\ audioBlob' = audioSize
  /\ options' = [hasProgressCallback |-> TRUE, duration |-> videoDuration]
  /\ TranscribeCall(audioSize, [hasProgressCallback |-> TRUE, duration |-> videoDuration],
                    <<>>)
  /\ pagePhase' = "transcribing"
  /\ UNCHANGED <<combineOutcomes, trResult, trError>>

\* The "Start Transcription" button: startTranscription up to its first
\* suspension, the extraction of the audio or, for an audio asset,
\* transcribeAudio.
startTranscription ==
  /\ ~showCompressionOption
  /\ ~isTranscribing
  /\ transcriptionRuns < MaxTranscriptionRuns
  /\ transcriptionRuns' = transcriptionRuns + 1
  /\ isTranscribing' = TRUE
  /\ pageError' = "null"
  /\ IF isAudioOnly
       THEN CallTranscribeAudio
       ELSE /\ pagePhase' = "extracting"
            /\ UNCHANGED transcribeVars
  /\ UNCHANGED <<mediaDuration, audioSize, videoDuration, transcriptionData, finishTimer,
                 editedData, editingId, editText, edits>>
  /\ UNCHANGED extractVars

\* extractAudioFromVideo resolves: startTranscription goes on to
\* transcribeAudio.
PageExtractionResolves ==
  /\ pagePhase = "extracting"
  /\ CallTranscribeAudio
  /\ UNCHANGED <<mediaDuration, audioSize, videoDuration, isTranscribing,
                 transcriptionData, pageError, finishTimer, transcriptionRuns,
                 editedData, editingId, editText, edits>>
  /\ UNCHANGED extractVars

\* The catch block of startTranscription discarding the transcript.
PageExtractionRejects_ClearsData ==
  /\ pagePhase = "extracting"
  /\ pagePhase' = "idle"
  /\ pageError' = "Transcription failed: Failed to extract audio from video."
  /\ isTranscribing' = FALSE
  /\ transcriptionData' = <<>>
  /\ editedData' = <<>>
  /\ UNCHANGED <<mediaDuration, audioSize, videoDuration, finishTimer,
                 transcriptionRuns, editingId, editText, edits>>
  /\ UNCHANGED <<extractVars, transcribeVars>>

\* extractAudioFromVideo rejects: the catch block of startTranscription.
PageExtractionRejects ==
  /\ pagePhase = "extracting"
  /\ pagePhase' = "idle"
  /\ pageError' = "Transcription failed: Failed to extract audio from video."
  /\ isTranscribing' = FALSE
  /\ UNCHANGED <<mediaDuration, audioSize, videoDuration, transcriptionData, finishTimer,
                 transcriptionRuns, editedData, editingId, editText, edits>>
  /\ UNCHANGED <<extractVars, transcribeVars>>

\* startTranscription after transcribeAudio when the run has ended (done):
\* setTranscriptionData, which the panel copies into editedData, and the
\* 500ms timer.
AfterTranscribeAudio(done, data) ==
  /\ IF done
       THEN /\ transcriptionData' = data
            /\ editedData' = data
            /\ finishTimer' = TRUE
            /\ pagePhase' = "idle"
       ELSE UNCHANGED <<transcriptionData, editedData, finishTimer, pagePhase>>
  /\ UNCHANGED <<mediaDuration, audioSize, videoDuration, isTranscribing, pageError,
                 transcriptionRuns, editingId, editText, edits>>
  /\ UNCHANGED extractVars

PageChunkTimer ==
  /\ pagePhase = "transcribing"
  /\ ChunkTimer
  /\ AfterTranscribeAudio(trState' = "done", trResult')

PageDirectTick ==
  /\ pagePhase = "transcribing"
  /\ DirectTick
  /\ AfterTranscribeAudio(FALSE, <<>>)

PageDirectDone ==
  /\ pagePhase = "transcribing"
  /\ DirectDone
  /\ AfterTranscribeAudio(TRUE, trResult')

\* The 500ms timer of startTranscription.
FinishTimer ==
  /\ finishTimer
  /\ finishTimer' = FALSE
  /\ isTranscribing' = FALSE
  /\ UNCHANGED <<mediaDuration, audioSize, videoDuration, pagePhase, transcriptionData,
                 pageError, transcriptionRuns, editedData, editingId, editText, edits>>
  /\ UNCHANGED <<extractVars, transcribeVars>>

\* --------------------------------------------------------- TranscriptionPanel
\* The text the user types into the edit box: a text that is none of the
\* phrases (a segment's text is the sequence of its phrases' indexes).
TypedText == <<NumPhrases>>

\* handleEdit(item) for the item at position k of the list.
handleEdit(k) ==
  /\ ~showCompressionOption
  /\ k \in 1..Len(editedData)
  /\ edits < MaxEdits
  /\ editingId = 0
  /\ editingId' = editedData[k].id
  /\ editText' = editedData[k].text
  /\ UNCHANGED <<mediaDuration, audioSize, videoDuration, isTranscribing, pagePhase,
                 transcriptionData, pageError, finishTimer, transcriptionRuns,
                 editedData, edits>>
  /\ UNCHANGED <<extractVars, transcribeVars>>

\* onChange of the edit box.
ChangeEditText ==
  /\ ~showCompressionOption
  /\ \E k \in 1..Len(editedData) : editedData[k].id = editingId
  /\ editText # TypedText
  /\ editText' = TypedText
  /\ UNCHANGED <<mediaDuration, audioSize, videoDuration, isTranscribing, pagePhase,
                 transcriptionData, pageError, finishTimer, transcriptionRuns,
                 editedData, editingId, edits>>
  /\ UNCHANGED <<extractVars, transcribeVars>>

\* prev.map(item => item.id === id ? {...item, text: editText} : item)
SaveEdit(data, id, text) ==
  [k \in 1..Len(data) |->
     IF data[k].id = id THEN [data[k] EXCEPT !.text = text] ELSE data[k]]

\* handleSaveEdit(item.id), the save button of a segment shown in edit mode.
handleSaveEdit(k) ==
  /\ ~showCompressionOption
  /\ k \in 1..Len(editedData)
  /\ editedData[k].id = editingId
  /\ editedData' = SaveEdit(editedData, editedData[k].id, editText)
  /\ editingId' = 0
  /\ editText' = <<>>
  /\ edits' = edits + 1
  /\ UNCHANGED <<mediaDuration, audioSize, videoDuration, isTranscribing, pagePhase,
                 transcriptionData, pageError, finishTimer, transcriptionRuns>>
  /\ UNCHANGED <<extractVars, transcribeVars>>

\* ---------------------------------------------------------------- ExportModal
\* The keys of selectedExports in the order of Object.entries.
ExportTypes == <<"full", "summary", "keypoints">>

FileFormats == {"txt", "html", "docx"}

\* Object.entries(selectedExports).filter(([, config]) => config.enabled)
EnabledExports(sel) ==
  LET all == [k \in 1..Len(ExportTypes) |->
                [type |-> ExportTypes[k], format |-> sel[ExportTypes[k]].format]]
      Enabled(e) == sel[e.type].enabled
  IN SelectSeq(all, Enabled)

\* The name exportTranscription returns for a finished export.
ExportFilename(type, format) ==
  <<CASE type = "full" -> "_full_transcript"
      [] type = "summary" -> "_summary"
      [] OTHER -> "_key_points", format>>

\* The message of the error a failed export throws.
ExportErrorMessage(format) ==
  IF format = "docx"
    THEN "Failed to create DOCX file. Please try a different format."
    ELSE "save failed"

\* The entry handleExportAll pushes for one export.
ExportResult(item, ok) ==
  IF ok
    THEN [type |-> item.type, format |-> item.format,
          filename |-> ExportFilename(item.type, item.format), success |-> TRUE]
    ELSE [type |-> item.type, format |-> item.format, success |-> FALSE,
          error |-> ExportErrorMessage(item.format)]

OpenModal ==
  /\ ~isOpen
  /\ isOpen' = TRUE
  /\ UNCHANGED <<selectedExports, isExporting, exportResults, exportError,
                 enabledExports, results, outcomes, pendingExport, closeTimers,
                 exportRuns>>

\* The close button of the header.
CloseModal ==
  /\ isOpen
  /\ isOpen' = FALSE
  /\ UNCHANGED <<selectedExports, isExporting, exportResults, exportError,
                 enabledExports, results, outcomes, pendingExport, closeTimers,
                 exportRuns>>

handleExportToggle(exportType) ==
  /\ isOpen
  /\ selectedExports' =
       [selectedExports EXCEPT ![exportType].enabled = ~selectedExports[exportType].enabled]
  /\ UNCHANGED <<isOpen, isExporting, exportResults, exportError, enabledExports,
                 results, outcomes, pendingExport, closeTimers, exportRuns>>

handleFormatChange(exportType, format) ==
  /\ isOpen
  /\ selectedExports[exportType].enabled
  /\ selectedExports' = [selectedExports EXCEPT ![exportType].format = format]
  /\ UNCHANGED <<isOpen, isExporting, exportResults, exportError, enabledExports,
                 results, outcomes, pendingExport, closeTimers, exportRuns>>

\* handleExportAll up to the first awaited exportTranscription.
handleExportAll ==
  /\ isOpen
  /\ ~isExporting
  /\ EnabledExports(selectedExports) # <<>>
  /\ exportRuns < MaxExportRuns
  /\ exportRuns' = exportRuns + 1
  /\ isExporting' = TRUE
  /\ exportError' = "null"
  /\ exportResults' = <<>>
  /\ enabledExports' = EnabledExports(selectedExports)
  /\ results' = <<>>
  /\ outcomes' = <<>>
  /\ pendingExport' = 1
  /\ UNCHANGED <<isOpen, selectedExports, closeTimers>>

\* The loop of handleExportAll giving up at the first failed export.
ExportSettles_AbortOnFailure(ok) ==
  /\ pendingExport > 0
  /\ outcomes' = Append(outcomes, ok)
  /\ results' = IF ok THEN Append(results, ExportResult(enabledExports[pendingExport], ok))
                 ELSE results
  /\ IF ok /\ pendingExport < Len(enabledExports)
       THEN /\ pendingExport' = pendingExport + 1
            /\ UNCHANGED <<exportResults, exportError, closeTimers, isExporting>>
       ELSE /\ pendingExport' = 0
            /\ exportResults' = (IF ok THEN results' ELSE exportResults)
            /\ exportError' = (IF ok THEN exportError ELSE "Failed to export files.")
            /\ closeTimers' = closeTimers + (IF ok THEN 1 ELSE 0)
            /\ isExporting' = FALSE
  /\ UNCHANGED <<isOpen, selectedExports, enabledExports, exportRuns>>

\* The awaited exportTranscription settles, resolved (ok) or rejected: the
\* loop pushes its entry and awaits the next export, or ends.
ExportSettles(ok) ==
  /\ pendingExport > 0
  /\ outcomes' = Append(outcomes, ok)
  /\ results' = Append(results, ExportResult(enabledExports[pendingExport], ok))
  /\ IF pendingExport < Len(enabledExports)
       THEN /\ pendingExport' = pendingExport + 1
            /\ UNCHANGED <<exportResults, closeTimers, isExporting>>
       ELSE /\ pendingExport' = 0
            /\ exportResults' = results'
            /\ closeTimers' = closeTimers + 1
            /\ isExporting' = FALSE
  /\ UNCHANGED <<isOpen, selectedExports, exportError, enabledExports, exportRuns>>

\* A 3000ms timer of handleExportAll fires.
ExportCloseTimer ==
  /\ closeTimers > 0
  /\ closeTimers' = closeTimers - 1
  /\ isOpen' = FALSE
  /\ exportResults' = <<>>
  /\ UNCHANGED <<selectedExports, isExporting, exportError, enabledExports, results,
                 outcomes, pendingExport, exportRuns>>

\* ------------------------------------------------ saving to the library
\* The state of the page saveToDatabase leaves alone.
pageRest == <<mediaDuration, audioSize, videoDuration, isTranscribing, pagePhase,
              transcriptionData, finishTimer, transcriptionRuns, editedData, editingId,
              editText, edits>>

\* segments.map(segment => ({transcription_id: transcription.id, ...}))
segmentsToInsert(id, segments) ==
  [k \in 1..Len(segments) |->
     [transcription_id |-> id, start_time |-> segments[k].startTime,
      end_time |-> segments[k].endTime, text |-> segments[k].text,
      speaker |-> "null"]]

\* The "Save to Library" button: saveToDatabase, saveTranscriptionToDatabase
\* and saveTranscription up to supabase.auth.getUser().
saveToDatabase ==
  /\ transcriptionData # <<>>
  /\ ~isSaving
  /\ ~saveSuccess
  /\ Len(saveOutcomes) < MaxSaves
  /\ isSaving' = TRUE
  /\ pageError' = "null"
  /\ savePayload' = transcriptionData
  /\ saveCall' = "getUser"
  /\ UNCHANGED <<saveSuccess, transcriptionId, successTimers, saveOutcomes,
                 transcriptions, segmentRows, exportData>>
  /\ UNCHANGED pageRest

\* saveTranscription throws: both services rethrow, saveToDatabase shows the
\* message and clears isSaving.
SaveRejects(message) ==
  /\ saveCall' = "idle"
  /\ saveOutcomes' = Append(saveOutcomes, "rejected")
  /\ pageError' = message
  /\ isSaving' = FALSE
  /\ UNCHANGED <<saveSuccess, transcriptionId, successTimers, savePayload, exportData>>

\* supabase.auth.getUser() answers with a user or with none.
GetUserAnswers(found) ==
  /\ saveCall = "getUser"
  /\ IF found = "null"
       THEN SaveRejects("Failed to save: User not authenticated")
       ELSE /\ saveCall' = "insertTranscription"
            /\ UNCHANGED <<isSaving, saveSuccess, transcriptionId, successTimers,
                           savePayload, saveOutcomes, exportData, pageError>>
  /\ UNCHANGED <<transcriptions, segmentRows>>
  /\ UNCHANGED pageRest

\* The insert of the metadata settles: with the new row and its id, or with
\* an error.
InsertTranscriptionSettles(ok) ==
  /\ saveCall = "insertTranscription"
  /\ IF ok
       THEN /\ transcriptions' = Append(transcriptions,
                                        [id |-> Len(transcriptions) + 1,
                                         status |-> "completed"])
            /\ saveCall' = "insertSegments"
            /\ UNCHANGED <<isSaving, saveSuccess, transcriptionId, successTimers,
                           savePayload, saveOutcomes, exportData, pageError>>
       ELSE /\ SaveRejects("Failed to save: transcriptionError")
            /\ UNCHANGED transcriptions
  /\ UNCHANGED segmentRows
  /\ UNCHANGED pageRest

\* The insert of the segments settles: saveTranscription returns the id and
\* saveToDatabase shows the success for 3000ms, or the error is thrown.
InsertSegmentsSettles(ok) ==
  /\ saveCall = "insertSegments"
  /\ IF ok
       THEN /\ segmentRows' = segmentRows \o
                                segmentsToInsert(transcriptions[Len(transcriptions)].id,
                                                 savePayload)
            /\ saveCall' = "idle"
            /\ saveOutcomes' = Append(saveOutcomes, "resolved")
            /\ transcriptionId' = transcriptions[Len(transcriptions)].id
            /\ saveSuccess' = TRUE
            /\ successTimers' = successTimers + 1
            /\ isSaving' = FALSE
            /\ UNCHANGED <<savePayload, exportData, pageError>>
       ELSE /\ SaveRejects("Failed to save: segmentsError")
            /\ UNCHANGED segmentRows
  /\ UNCHANGED transcriptions
  /\ UNCHANGED pageRest

\* A 3000ms timer of saveToDatabase fires.
SaveSuccessTimer ==
  /\ successTimers > 0
  /\ successTimers' = successTimers - 1
  /\ saveSuccess' = FALSE
  /\ UNCHANGED <<isSaving, transcriptionId, saveCall, savePayload, saveOutcomes,
                 transcriptions, segmentRows, exportData>>

\* The "Export Files" button of the page.
ShowExportModal ==
  /\ transcriptionData # <<>>
  /\ OpenModal
  /\ UNCHANGED libraryVars

\* handleExportAll of the modal the page renders: every exportTranscription
\* of the run gets the transcriptionData prop.
PageExportAll ==
  /\ handleExportAll
  /\ exportData' = transcriptionData
  /\ UNCHANGED <<isSaving, saveSuccess, transcriptionId, successTimers, saveCall,
                 savePayload, saveOutcomes, transcriptions, segmentRows>>

\* ---------------------------------------------------------------- AuthProvider
Sessions == {"null", "session1", "session2"}

\* currentSession?.user || null
UserOf(sess) ==
  CASE sess = "session1" -> "user1"
    [] sess = "session2" -> "user2"
    [] OTHER -> "null"

\* The call initializeAuth awaits settles, with what the client holds at this
\* moment or with an error; the continuation has not run yet.
AuthCallSettles(throws) ==
  /\ initPhase \in {"getCurrentSession", "getCurrentUser"}
  /\ answer = "none"
  /\ answer' = IF throws THEN "error"
               ELSE IF initPhase = "getCurrentSession" THEN clientSession
               ELSE UserOf(clientSession)
  /\ UNCHANGED <<user, session, isLoading, clientSession, initPhase, signOutCall>>

\* initializeAuth goes on after getCurrentSession.
AfterGetCurrentSession ==
  /\ initPhase = "getCurrentSession"
  /\ answer # "none"
  /\ answer' = "none"
  /\ IF answer = "error"
       THEN /\ initPhase' = "done"
            /\ isLoading' = FALSE
            /\ UNCHANGED session
       ELSE /\ session' = answer
            /\ IF answer # "null"
                 THEN /\ initPhase' = "getCurrentUser"
                      /\ UNCHANGED isLoading
                 ELSE /\ initPhase' = "done"
                      /\ isLoading' = FALSE
  /\ UNCHANGED <<user, clientSession, signOutCall>>

\* initializeAuth goes on after getCurrentUser.
AfterGetCurrentUser ==
  /\ initPhase = "getCurrentUser"
  /\ answer # "none"
  /\ answer' = "none"
  /\ initPhase' = "done"
  /\ isLoading' = FALSE
  /\ user' = IF answer = "error" THEN user ELSE answer
  /\ UNCHANGED <<session, clientSession, signOutCall>>

\* The callback of onAuthStateChange.
AuthListener(currentSession) ==
  /\ session' = currentSession
  /\ user' = UserOf(currentSession)
  /\ isLoading' = FALSE

\* The client's session changes outside the provider (sign-in, sign-out in
\* another tab, expiry) and the listener is called with it.
AuthStateChange(currentSession) ==
  /\ currentSession # clientSession
  /\ clientSession' = currentSession
  /\ AuthListener(currentSession)
  /\ UNCHANGED <<initPhase, answer, signOutCall>>

\* signOut up to the await of supabase.auth.signOut().
signOut ==
  /\ signOutCall = "idle"
  /\ signOutCall' = "pending"
  /\ UNCHANGED <<user, session, isLoading, clientSession, initPhase, answer>>

\* supabase.auth.signOut() removes the session and has the listener called.
SignOutClears ==
  /\ signOutCall = "pending"
  /\ signOutCall' = "cleared"
  /\ clientSession' = "null"
  /\ AuthListener("null")
  /\ UNCHANGED <<initPhase, answer>>

\* supabase.auth.signOut() resolves and signOut goes on.
SignOutResolves ==
  /\ signOutCall = "cleared"
  /\ signOutCall' = "idle"
  /\ user' = "null"
  /\ session' = "null"
  /\ UNCHANGED <<isLoading, clientSession, initPhase, answer>>

\* supabase.auth.signOut() throws: the catch block of signOut.
SignOutThrows ==
  /\ signOutCall = "pending"
  /\ signOutCall' = "idle"
  /\ UNCHANGED <<user, session, isLoading, clientSession, initPhase, answer>>

\* ------------------------------------------------------------ specification
\* handleFileUpload has stored the file and shown the compression option;
\* the component is constructed with its useState defaults.
ExtractInit(apis, codecs, loaded, file) ==
  /\ windowApis = apis
  /\ supportedMimeTypes = codecs
  /\ ffmpegLoaded = loaded
  /\ videoFile = file
  /\ mounted = FALSE
  /\ browserSupport = TRUE
  /\ showFallbackUI = FALSE
  /\ isCompressing = FALSE
  /\ compressionProgress = 0
  /\ compressionStage = ""
  /\ compressionSettings = DefaultCompressionSettings
  /\ compressionResults = NoResults
  /\ error = "null"
  /\ completionTimer = FALSE
  /\ showCompressionOption = TRUE
  /\ isAudioOnly = FALSE
  /\ pageAsset = "original"
  /\ callState = "idle"
  /\ caller = "component"
  /\ result = "none"
  /\ events = <<>>
  /\ nativeRuns = 0
  /\ engineRuns = 0
  /\ nativePromise = "idle"
  /\ videoState = "none"
  /\ currentTime = 0
  /\ playbackRate = 1
  /\ handlersSet = FALSE
  /\ intervalActive = FALSE
  /\ ticks = 0
  /\ recorderState = "none"
  /\ selectedMimeType = "audio/webm"
  /\ urlLive = FALSE
  /\ audioCtx = "none"
  /\ stopTimer = FALSE
  /\ engineState = "idle"

\* No transcription has been requested.
TranscribeInit(blob, opts, combine) ==
  /\ audioBlob = blob
  /\ options = opts
  /\ combineOutcomes = combine
  /\ trState = "idle"
  /\ trMode = "none"
  /\ totalChunks = 0
  /\ chunkIndex = 0
  /\ chunks = <<>>
  /\ elapsedTicks = 0
  /\ trEvents = <<>>
  /\ trResult = <<>>
  /\ attempts = 0
  /\ trError = "none"

\* The modal as constructed: closed, with every export enabled as txt.
ExportInit ==
  /\ isOpen = FALSE
  /\ selectedExports = [t \in {"full", "summary", "keypoints"} |->
                          [enabled |-> TRUE, format |-> "txt"]]
  /\ isExporting = FALSE
  /\ exportResults = <<>>
  /\ exportError = "null"
  /\ enabledExports = <<>>
  /\ results = <<>>
  /\ outcomes = <<>>
  /\ pendingExport = 0
  /\ closeTimers = 0
  /\ exportRuns = 0

\* The page after handleFileUpload, before any transcription.
SessionInit(duration, audio) ==
  /\ mediaDuration = duration
  /\ audioSize = audio
  /\ videoDuration = 0
  /\ isTranscribing = FALSE
  /\ pagePhase = "idle"
  /\ transcriptionData = <<>>
  /\ pageError = "null"
  /\ finishTimer = FALSE
  /\ transcriptionRuns = 0
  /\ editedData = <<>>
  /\ editingId = 0
  /\ editText = <<>>
  /\ edits = 0

\* What the media element, the recorder and the engine of an extraction run
\* do on their own.
Extraction ==
  \/ \E failAt \in {"none", "AudioContext", "recorder.start"} : OnLoadedMetadata(failAt)
  \/ VideoError
  \/ PlayStarted
  \/ PlayRejected
  \/ PlaybackAdvance
  \/ ProgressTick
  \/ VideoEnded
  \/ RecorderStop
  \/ EngineLoaded
  \/ EngineLoadFailed
  \/ EngineFetched
  \/ EngineFetchFailed
  \/ EngineRan
  \/ EngineRunFailed

\* The same, with the completion timer of startCompression.
Respond ==
  \/ Extraction
  \/ CompletionTimer

\* --------------------------------------------- the progress bar of the page
\* The events a step has delivered: those after the ones already delivered,
\* or all of them when the list was started afresh.
NewEvents(old, new) ==
  IF Len(new) >= Len(old) /\ SubSeq(new, 1, Len(old)) = old
    THEN SubSeq(new, Len(old) + 1, Len(new))
    ELSE new

\* audioExtractionCallback: setProgress(Math.min(progress * 0.4, 40)), in
\* tenths of a percent
ExtractionProgress(ev) == [k \in 1..Len(ev) |-> Min(4 * ev[k].percent, 400)]

\* progressCallback of transcriptionOptions: setProgress(50 + progress * 0.4)
TranscriptionProgress(ev) == [k \in 1..Len(ev) |-> 500 + 4 * ev[k].percent]

\* The calls of setProgress in a step, in order.
SetPageProgress(values) ==
  /\ progressLog' = progressLog \o values
  /\ progress' = IF values = <<>> THEN progress ELSE values[Len(values)]

\* startTranscription on a video asset, up to the first suspension of
\* extractAudioFromVideo: the state resets, progressCallback(5) of
\* extractAudioFromVideo, then extractAudioOnly with the page's callback.
\* The media objects of one extraction run are modelled, so a session of
\* this kind holds one run.
StartTranscriptionRun(setupThrows) ==
  /\ ~showCompressionOption
  /\ ~isAudioOnly
  /\ ~isTranscribing
  /\ callState = "idle"
  /\ transcriptionRuns < MaxTranscriptionRuns
  /\ transcriptionRuns' = transcriptionRuns + 1
  /\ isTranscribing' = TRUE
  /\ pageError' = "null"
  /\ pagePhase' = "extracting"
  /\ ExtractAudioOnly("page",
                      Emit(events, 5, "Initializing optimized audio extraction..."),
                      setupThrows)
  /\ progressLog' = <<0>> \o ExtractionProgress(NewEvents(events, events'))
  /\ progress' = progressLog'[Len(progressLog')]
  /\ UNCHANGED <<envVars, compVars, pageVars>>
  /\ UNCHANGED <<mediaDuration, audioSize, videoDuration, transcriptionData, finishTimer,
                 editedData, editingId, editText, edits>>
  /\ UNCHANGED transcribeVars

\* A step of the extraction run the page awaits; its events reach
\* audioExtractionCallback.
ExtractionStep ==
  /\ pagePhase = "extracting"
  /\ Extraction
  /\ SetPageProgress(ExtractionProgress(NewEvents(events, events')))
  /\ UNCHANGED <<transcribeVars, sessionVars>>

\* extractAudioFromVideo resolves: setProgress(50), then transcribeAudio up
\* to its first suspension with the page's progressCallback.
ExtractionResolved ==
  /\ pagePhase = "extracting"
  /\ callState = "returned"
  /\ CallTranscribeAudio
  /\ SetPageProgress(<<500>> \o TranscriptionProgress(trEvents'))
  /\ UNCHANGED <<mediaDuration, audioSize, videoDuration, isTranscribing,
                 transcriptionData, pageError, finishTimer, transcriptionRuns,
                 editedData, editingId, editText, edits>>
  /\ UNCHANGED extractVars

\* extractAudioFromVideo rejects: the catch block of startTranscription.
ExtractionRejected ==
  /\ callState = "threw"
  /\ PageExtractionRejects
  /\ UNCHANGED workflowVars

\* A step of transcribeAudio under startTranscription; its events reach the
\* page's progressCallback, and when it resolves the page sets 95 and 100.
TranscriptionStep ==
  /\ \/ PageChunkTimer
     \/ PageDirectTick
     \/ PageDirectDone
  /\ SetPageProgress(TranscriptionProgress(NewEvents(trEvents, trEvents'))
                       \o (IF trState' = "done" THEN <<950, 1000>> ELSE <<>>))

\* ------------------------------------------------------------------ player
\* currentTime >= item.startTime && currentTime <= item.endTime
isCurrentSegment(item, time) ==
  ~NumLess(time, item.startTime) /\ ~NumLess(item.endTime, time)

\* transcriptionData.find by the last match instead of the first.
getCurrentTranscription_Last(data, time) ==
  IF \E k \in 1..Len(data) : isCurrentSegment(data[k], time)
    THEN CHOOSE k \in 1..Len(data) :
           /\ isCurrentSegment(data[k], time)
           /\ \A j \in (k + 1)..Len(data) : ~isCurrentSegment(data[j], time)
    ELSE 0

\* getCurrentTranscription: the position of the item transcriptionData.find
\* returns for the page's currentTime, 0 for undefined.
getCurrentTranscription(data, time) ==
  IF \E k \in 1..Len(data) : isCurrentSegment(data[k], time)
    THEN CHOOSE k \in 1..Len(data) :
           /\ isCurrentSegment(data[k], time)
           /\ \A j \in 1..(k - 1) : ~isCurrentSegment(data[j], time)
    ELSE 0

\* The positions the media element is observed at: the start, one second in,
\* the end of the media, and every boundary of the transcript.
PlayerTimes ==
  {FromInt(0), FromInt(1), FromInt(mediaDuration)}
    \cup {transcriptionData[k].startTime : k \in 1..Len(transcriptionData)}
    \cup {transcriptionData[k].endTime : k \in 1..Len(transcriptionData)}

\* handleSeek, or playback reaching a position: video.currentTime = time
handleSeek(time) ==
  /\ ~showCompressionOption
  /\ time # mediaTime
  /\ mediaTime' = time
  /\ UNCHANGED <<playerTime, searchTerm>>

\* jumpToTime(item.startTime), the time button of the panel's k-th segment
jumpToTime(k) ==
  /\ ~showCompressionOption
  /\ k \in 1..Len(editedData)
  /\ mediaTime' = editedData[k].startTime
  /\ UNCHANGED <<playerTime, searchTerm>>

\* timeupdate of the media element: handleTimeUpdate(video.currentTime)
handleTimeUpdate ==
  /\ ~showCompressionOption
  /\ playerTime' = mediaTime
  /\ UNCHANGED <<mediaTime, searchTerm>>

\* ------------------------------------------------------------------ search
\* The words of the phrases the runs of this model select (phrases[0] to
\* phrases[2]); the other phrases are not spelled out.
PhraseWords(p) ==
  CASE p = 0 -> <<"Welcome", "to", "our", "comprehensive", "video", "presentation.">>
    [] p = 1 -> <<"Today", "we'll", "be", "discussing", "the", "key", "features", "and",
                  "capabilities", "of", "our", "new", "platform.">>
    [] p = 2 -> <<"Our", "application", "is", "designed", "to", "be", "user-friendly,",
                  "intuitive,", "and", "scalable", "for", "enterprise", "use.">>
    [] p = NumPhrases -> <<"Our", "VIDEO">>
    [] OTHER -> <<"...">>

\* The words of a text: those of its phrases, joined; the text the user
\* types (TypedText) reads "Our VIDEO".
RECURSIVE Words(_)
Words(text) == IF text = <<>> THEN <<>> ELSE PhraseWords(Head(text)) \o Words(Tail(text))

\* String.prototype.toLowerCase on the words that have capitals.
LowerCased ==
  [w \in {"Welcome", "Today", "Our", "VIDEO"} |->
     CASE w = "Welcome" -> "welcome"
       [] w = "Today" -> "today"
       [] w = "Our" -> "our"
       [] OTHER -> "video"]

toLowerCase(words) ==
  [k \in 1..Len(words) |->
     IF words[k] \in DOMAIN LowerCased THEN LowerCased[words[k]] ELSE words[k]]

\* String.prototype.includes, on words: term occurs in words as a run.
includes(words, term) ==
  \E off \in 0..(Len(words) - Len(term)) :
    \A i \in 1..Len(term) : words[off + i] = term[i]

\* The filter taking the search term as typed.
filteredData_CaseSensitive(data, term) ==
  LET Keep(item) == includes(Words(item.text), term)
  IN SelectSeq(data, Keep)

\* editedData.filter(item =>
\*   item.text.toLowerCase().includes(searchTerm.toLowerCase()))
filteredData(data, term) ==
  LET Keep(item) == includes(toLowerCase(Words(item.text)), toLowerCase(term))
  IN SelectSeq(data, Keep)

\* What the user types into the search box.
SearchTerms == {<<>>, <<"VIDEO">>, <<"welcome", "to">>, <<"today">>, <<"dashboard">>}

\* onChange of the search box: setSearchTerm(e.target.value)
ChangeSearchTerm(term) ==
  /\ ~showCompressionOption
  /\ term # searchTerm
  /\ searchTerm' = term
  /\ UNCHANGED <<mediaTime, playerTime>>

\* ---------------------------------------------------------------- VideoUpload
\* A File: its type as the text before and after the first slash, and its size.
UploadFile(type, size) == [type |-> type, size |-> size]

\* file.type.startsWith('video/')
IsVideoType(file) == Len(file.type) >= 1 /\ file.type[1] = "video/"

\* 5 * 1024 * 1024 * 1024 bytes, in megabytes
MaxSizeMB == 5 * 1024

\* files.find(file => file.type.startsWith('video/')): its position, 0 when
\* there is none.
FindVideo(files) ==
  IF \E k \in 1..Len(files) : IsVideoType(files[k])
    THEN CHOOSE k \in 1..Len(files) :
           IsVideoType(files[k]) /\ \A j \in 1..(k - 1) : ~IsVideoType(files[j])
    ELSE 0

\* const increment = fileSizeGB > 2 ? 2 : 5
Increment(file) == IF SizeGT(file.size, 2048) THEN 2 ELSE 5

\* The files users hand over: videos of 100MB, 3GB, exactly 5GB and one byte
\* more, an audio file, and a file whose type only mentions video.
SmallVideo == UploadFile(<<"video/", "mp4">>, Bytes(100, 0))
LargeVideo == UploadFile(<<"video/", "webm">>, Bytes(3 * 1024, 0))
CeilingVideo == UploadFile(<<"video/", "mp4">>, Bytes(MaxSizeMB, 0))
OversizedVideo == UploadFile(<<"video/", "mp4">>, Bytes(MaxSizeMB, 1))
AudioFile == UploadFile(<<"audio/", "mpeg">>, Bytes(10, 0))
OddFile == UploadFile(<<"application/", "video/mp4">>, Bytes(10, 0))

FileLists ==
  {<<>>, <<SmallVideo>>, <<LargeVideo>>, <<CeilingVideo>>, <<OversizedVideo>>,
   <<AudioFile>>, <<OddFile>>, <<AudioFile, SmallVideo>>, <<OversizedVideo, SmallVideo>>}

handleDragOver ==
  /\ uploadMounted
  /\ isDragOver' = TRUE
  /\ UNCHANGED <<uploadMounted, uploadProgress, isUploading, uploadError,
                 showLargeFileWarning, warningTimers, uploads, uploadedFiles, dropped>>

handleDragLeave ==
  /\ uploadMounted
  /\ isDragOver' = FALSE
  /\ UNCHANGED <<uploadMounted, uploadProgress, isUploading, uploadError,
                 showLargeFileWarning, warningTimers, uploads, uploadedFiles, dropped>>

\* processUpload(file): the upload is shown from 0 and a new interval is set.
processUpload(file) ==
  /\ isUploading' = TRUE
  /\ uploadProgress' = 0
  /\ uploads' = Append(uploads, [file |-> file, interval |-> TRUE, timer |-> FALSE])

\* handleFiles without the check of the size ceiling.
handleFiles_NoCeiling(files) ==
  /\ dropped' = Append(dropped, files)
  /\ IF FindVideo(files) = 0
       THEN /\ uploadError' = "invalid"
            /\ showLargeFileWarning' = FALSE
            /\ UNCHANGED <<uploadProgress, isUploading, warningTimers, uploads>>
       ELSE LET videoFile_ == files[FindVideo(files)] IN
            /\ uploadError' = "null"
            /\ showLargeFileWarning' = SizeGT(videoFile_.size, 1024)
            /\ warningTimers' = warningTimers + (IF SizeGT(videoFile_.size, 1024) THEN 1 ELSE 0)
            /\ processUpload(videoFile_)
  /\ UNCHANGED <<uploadMounted, uploadedFiles>>

\* handleFiles(files)
handleFiles(files) ==
  /\ dropped' = Append(dropped, files)
  /\ IF FindVideo(files) = 0
       THEN /\ uploadError' = "invalid"
            /\ showLargeFileWarning' = FALSE
            /\ UNCHANGED <<uploadProgress, isUploading, warningTimers, uploads>>
       ELSE LET videoFile_ == files[FindVideo(files)] IN
            IF SizeGT(videoFile_.size, MaxSizeMB)
              THEN /\ uploadError' = "tooLarge"
                   /\ showLargeFileWarning' = FALSE
                   /\ UNCHANGED <<uploadProgress, isUploading, warningTimers, uploads>>
              ELSE /\ uploadError' = "null"
                   /\ showLargeFileWarning' = SizeGT(videoFile_.size, 1024)
                   /\ warningTimers' =
                        warningTimers + (IF SizeGT(videoFile_.size, 1024) THEN 1 ELSE 0)
                   /\ processUpload(videoFile_)
  /\ UNCHANGED <<uploadMounted, uploadedFiles>>

\* onDrop of the drop zone, which is rendered also while an upload runs.
handleDrop(files) ==
  /\ uploadMounted
  /\ Len(dropped) < MaxDrops
  /\ isDragOver' = FALSE
  /\ handleFiles(files)

\* onChange of the file input, which is rendered while no upload runs.
handleFileSelect(files) ==
  /\ uploadMounted
  /\ ~isUploading
  /\ Len(dropped) < MaxDrops
  /\ handleFiles(files)
  /\ UNCHANGED isDragOver

\* The 5000ms timer of handleFiles.
WarningTimer ==
  /\ warningTimers > 0
  /\ warningTimers' = warningTimers - 1
  /\ showLargeFileWarning' = FALSE
  /\ UNCHANGED <<uploadMounted, isDragOver, uploadProgress, isUploading, uploadError,
                 uploads, uploadedFiles, dropped>>

\* The interval of upload k fires: the updater of setUploadProgress. Once
\* the component is unmounted React may or may not run the updater (runs),
\* and its state is not rendered any more.
UploadTick(k, runs) ==
  /\ k \in 1..Len(uploads)
  /\ uploads[k].interval
  /\ (uploadMounted \/ runs)
  /\ IF uploadProgress >= 100
       THEN /\ uploads' = [uploads EXCEPT ![k].interval = FALSE, ![k].timer = TRUE]
            /\ uploadProgress' = IF uploadMounted THEN 100 ELSE uploadProgress
       ELSE /\ uploadProgress' = IF uploadMounted
                                   THEN uploadProgress + Increment(uploads[k].file)
                                   ELSE uploadProgress
            /\ UNCHANGED uploads
  /\ UNCHANGED <<uploadMounted, isDragOver, isUploading, uploadError,
                 showLargeFileWarning, warningTimers, uploadedFiles, dropped>>

\* The 500ms timer of upload k: setIsUploading(false) and onFileUpload(file),
\* after which the page has a videoFile and renders no VideoUpload.
UploadTimer(k) ==
  /\ k \in 1..Len(uploads)
  /\ uploads[k].timer
  /\ uploads' = [uploads EXCEPT ![k].timer = FALSE]
  /\ isUploading' = IF uploadMounted THEN FALSE ELSE isUploading
  /\ uploadedFiles' = Append(uploadedFiles, uploads[k].file)
  /\ uploadMounted' = FALSE
  /\ UNCHANGED <<isDragOver, uploadProgress, uploadError, showLargeFileWarning,
                 warningTimers, dropped>>

\* VideoUpload as constructed.
UploadInit ==
  /\ uploadMounted = TRUE
  /\ isDragOver = FALSE
  /\ uploadProgress = 0
  /\ isUploading = FALSE
  /\ uploadError = "null"
  /\ showLargeFileWarning = FALSE
  /\ warningTimers = 0
  /\ uploads = <<>>
  /\ uploadedFiles = <<>>
  /\ dropped = <<>>

\* The player at the start of the media, the search box empty.
ViewInit ==
  /\ mediaTime = FromInt(0)
  /\ playerTime = FromInt(0)
  /\ searchTerm = <<>>

\* The progress bar before any run.
WorkflowInit ==
  /\ progress = 0
  /\ progressLog = <<>>

\* Nothing saved or exported yet, the tables empty.
LibraryInit ==
  /\ isSaving = FALSE
  /\ saveSuccess = FALSE
  /\ transcriptionId = 0
  /\ successTimers = 0
  /\ saveCall = "idle"
  /\ savePayload = <<>>
  /\ saveOutcomes = <<>>
  /\ transcriptions = <<>>
  /\ segmentRows = <<>>
  /\ exportData = <<>>

\* The provider after its effect has run: initializeAuth waits for
\* getCurrentSession, the listener is subscribed.
AuthInit(stored) ==
  /\ user = "null"
  /\ session = "null"
  /\ isLoading = TRUE
  /\ clientSession = stored
  /\ initPhase = "getCurrentSession"
  /\ answer = "none"
  /\ signOutCall = "idle"

ShellInit ==
  /\ UploadInit
  /\ ViewInit
  /\ WorkflowInit
  /\ LibraryInit
  /\ AuthInit("null")

Init ==
  /\ ExportInit
  /\ ShellInit
  /\ SessionInit(60, Bytes(10, 0))
  /\ \E apis \in BOOLEAN, codecs \in CodecEnvs, loaded \in BOOLEAN, file \in FileSizes :
       ExtractInit(apis, codecs, loaded, file)
  /\ TranscribeInit(Bytes(1, 0), [hasProgressCallback |-> TRUE, duration |-> 0], BOOLEAN)

Next ==
  \/ (Mount /\ UNCHANGED <<transcribeVars, sessionVars, exportVars, shellVars>>)
  \/ (ClickStart /\ UNCHANGED <<transcribeVars, sessionVars, exportVars, shellVars>>)
  \/ (Respond /\ UNCHANGED <<transcribeVars, sessionVars, exportVars, shellVars>>)

vars == <<extractVars, transcribeVars, sessionVars, exportVars, shellVars>>

Spec == Init /\ [][Next]_vars

\* ---- transcription runs on their own
AudioBlobs == {Bytes(10, 0), Bytes(25, 0), Bytes(25, 1), Bytes(60, 0)}

DurationHints == {0, 16, 48}

TranscribeOptions == [hasProgressCallback : BOOLEAN, duration : DurationHints]

\* The calls of transcribeAudio: every payload with every option value, a
\* 140MB payload of 45s (7 chunks), and a 60MB payload of 120s (3 chunks of
\* 5 segments). The runs of 60s and more draw the segment durations only:
\* their phrases are never combined.
TranscribeInputs ==
  {<<blob, opts, IF opts.duration = 0 THEN {FALSE} ELSE BOOLEAN>> :
     blob \in AudioBlobs, opts \in TranscribeOptions}
    \cup {<<Bytes(140, 0), [hasProgressCallback |-> TRUE, duration |-> 45], BOOLEAN>>,
          <<Bytes(60, 0), [hasProgressCallback |-> TRUE, duration |-> 120], {FALSE}>>}

TInit ==
  /\ ExportInit
  /\ ShellInit
  /\ SessionInit(60, Bytes(10, 0))
  /\ ExtractInit(TRUE, {"audio/webm"}, FALSE, Bytes(100, 0))
  /\ \E in \in TranscribeInputs : TranscribeInit(in[1], in[2], in[3])

TNext ==
  \/ (TranscribeAudio /\ UNCHANGED <<extractVars, sessionVars, exportVars, shellVars>>)
  \/ (ChunkTimer /\ UNCHANGED <<extractVars, sessionVars, exportVars, shellVars>>)
  \/ (DirectTick /\ UNCHANGED <<extractVars, sessionVars, exportVars, shellVars>>)
  \/ (DirectDone /\ UNCHANGED <<extractVars, sessionVars, exportVars, shellVars>>)
  \/ (\E err \in Failures : TranscribeThrows(err) /\ UNCHANGED <<extractVars, sessionVars, exportVars, shellVars>>)

TranscribeSpec == TInit /\ [][TNext]_vars

\* The media element, the timers and the engine eventually respond.
LiveSpec == Spec /\ WF_vars(Respond /\ UNCHANGED <<transcribeVars, sessionVars, exportVars, shellVars>>)

\* ---- a session of the page: the compression option with its extraction
\* run, cancel, and transcriptions. The user starts a transcription once the
\* player has reported the duration.
SessionInputs == {<<13, Bytes(140, 0)>>, <<13, Bytes(10, 0)>>}

SInit ==
  /\ ExportInit
  /\ ShellInit
  /\ \E file \in {Bytes(100, 0), Bytes(600, 0)} :
       ExtractInit(TRUE, {"audio/webm;codecs=opus", "audio/webm"}, TRUE, file)
  /\ TranscribeInit(Bytes(0, 0), [hasProgressCallback |-> TRUE, duration |-> 0], {FALSE})
  /\ \E in \in SessionInputs : SessionInit(in[1], in[2])

\* What the page does on its own, and the user's transcription button.
PageNext ==
  \/ (cancelCompression /\ UNCHANGED <<exportVars, shellVars>>)
  \/ (handleMetadataLoaded /\ UNCHANGED <<exportVars, shellVars>>)
  \/ (videoDuration # 0 /\ startTranscription /\ UNCHANGED <<exportVars, shellVars>>)
  \/ (PageExtractionResolves /\ UNCHANGED <<exportVars, shellVars>>)
  \/ (PageExtractionRejects /\ UNCHANGED <<exportVars, shellVars>>)
  \/ (PageChunkTimer /\ UNCHANGED <<exportVars, shellVars>>)
  \/ (PageDirectTick /\ UNCHANGED <<exportVars, shellVars>>)
  \/ (PageDirectDone /\ UNCHANGED <<exportVars, shellVars>>)
  \/ (FinishTimer /\ UNCHANGED <<exportVars, shellVars>>)

SNext ==
  \/ (Mount /\ UNCHANGED <<transcribeVars, sessionVars, exportVars, shellVars>>)
  \/ (ClickStart /\ UNCHANGED <<transcribeVars, sessionVars, exportVars, shellVars>>)
  \/ (Respond /\ UNCHANGED <<transcribeVars, sessionVars, exportVars, shellVars>>)
  \/ PageNext

SessionSpec == SInit /\ [][SNext]_vars

\* Everything but the player and the panel's view.
playerRest == <<extractVars, transcribeVars, sessionVars, exportVars, uploadVars, workflowVars,
                libraryVars, authVars>>

\* ---- a session in which the user declines the extraction, transcribes,
\* edits the transcript and searches it
PanelInputs == SessionInputs \cup {<<16, Bytes(25, 1)>>}

PInit ==
  /\ ExportInit
  /\ ShellInit
  /\ ExtractInit(TRUE, {"audio/webm;codecs=opus", "audio/webm"}, TRUE, Bytes(100, 0))
  /\ TranscribeInit(Bytes(0, 0), [hasProgressCallback |-> TRUE, duration |-> 0], {FALSE})
  /\ \E in \in PanelInputs : SessionInit(in[1], in[2])

PNext ==
  \/ (Mount /\ UNCHANGED <<transcribeVars, sessionVars, exportVars, shellVars>>)
  \/ PageNext
  \/ (\E k \in 1..Len(editedData) : handleEdit(k) /\ UNCHANGED <<exportVars, shellVars>>)
  \/ (ChangeEditText /\ UNCHANGED <<exportVars, shellVars>>)
  \/ (\E k \in 1..Len(editedData) : handleSaveEdit(k) /\ UNCHANGED <<exportVars, shellVars>>)
  \/ (\E term \in SearchTerms : ChangeSearchTerm(term) /\ UNCHANGED playerRest)

PanelSpec == PInit /\ [][PNext]_vars

\* ---- the export modal on its own
EInit ==
  /\ ExportInit
  /\ ShellInit
  /\ SessionInit(60, Bytes(10, 0))
  /\ ExtractInit(TRUE, {"audio/webm"}, FALSE, Bytes(100, 0))
  /\ TranscribeInit(Bytes(1, 0), [hasProgressCallback |-> TRUE, duration |-> 0], BOOLEAN)

ENext ==
  \/ (OpenModal /\ UNCHANGED <<extractVars, transcribeVars, sessionVars, shellVars>>)
  \/ (CloseModal /\ UNCHANGED <<extractVars, transcribeVars, sessionVars, shellVars>>)
  \/ (\E t \in {"full", "summary", "keypoints"} :
        handleExportToggle(t) /\ UNCHANGED <<extractVars, transcribeVars, sessionVars, shellVars>>)
  \/ (\E t \in {"full", "summary", "keypoints"}, f \in FileFormats :
        handleFormatChange(t, f) /\ UNCHANGED <<extractVars, transcribeVars, sessionVars, shellVars>>)
  \/ (handleExportAll /\ UNCHANGED <<extractVars, transcribeVars, sessionVars, shellVars>>)
  \/ (\E ok \in BOOLEAN : ExportSettles(ok) /\ UNCHANGED <<extractVars, transcribeVars, sessionVars, shellVars>>)
  \/ (ExportCloseTimer /\ UNCHANGED <<extractVars, transcribeVars, sessionVars, shellVars>>)

ExportSpec == EInit /\ [][ENext]_vars

\* ---- a session in which the user declines the extraction, transcribes and
\* plays the media
PlayerNext ==
  \/ (Mount /\ UNCHANGED <<transcribeVars, sessionVars, exportVars, shellVars>>)
  \/ PageNext
  \/ (\E time \in PlayerTimes : handleSeek(time) /\ UNCHANGED playerRest)
  \/ (\E k \in 1..Len(editedData) : jumpToTime(k) /\ UNCHANGED playerRest)
  \/ (handleTimeUpdate /\ UNCHANGED playerRest)

PlayerSpec == PInit /\ [][PlayerNext]_vars

\* ---- a session in which the user declines the extraction, transcribes,
\* edits the transcript, saves it to the library and exports it
libraryRest == <<extractVars, transcribeVars, exportVars, uploadVars, viewVars, workflowVars,
                 authVars>>

exportRest == <<extractVars, transcribeVars, sessionVars, uploadVars, viewVars, workflowVars,
                authVars>>

LInit ==
  /\ ExportInit
  /\ ShellInit
  /\ ExtractInit(TRUE, {"audio/webm;codecs=opus", "audio/webm"}, TRUE, Bytes(100, 0))
  /\ TranscribeInit(Bytes(0, 0), [hasProgressCallback |-> TRUE, duration |-> 0], {FALSE})
  /\ \E in \in SessionInputs : SessionInit(in[1], in[2])

LNext ==
  \/ (Mount /\ UNCHANGED <<transcribeVars, sessionVars, exportVars, shellVars>>)
  \/ PageNext
  \/ (\E k \in 1..Len(editedData) : handleEdit(k) /\ UNCHANGED <<exportVars, shellVars>>)
  \/ (ChangeEditText /\ UNCHANGED <<exportVars, shellVars>>)
  \/ (\E k \in 1..Len(editedData) : handleSaveEdit(k) /\ UNCHANGED <<exportVars, shellVars>>)
  \/ (saveToDatabase /\ UNCHANGED libraryRest)
  \/ (\E found \in {"null", "user"} : GetUserAnswers(found) /\ UNCHANGED libraryRest)
  \/ (\E ok \in BOOLEAN : InsertTranscriptionSettles(ok) /\ UNCHANGED libraryRest)
  \/ (\E ok \in BOOLEAN : InsertSegmentsSettles(ok) /\ UNCHANGED libraryRest)
  \/ (SaveSuccessTimer /\ UNCHANGED <<libraryRest, sessionVars>>)
  \/ (ShowExportModal /\ UNCHANGED exportRest)
  \/ (PageExportAll /\ UNCHANGED exportRest)
  \/ (\E ok \in BOOLEAN : ExportSettles(ok) /\ UNCHANGED <<exportRest, libraryVars>>)
  \/ (ExportCloseTimer /\ UNCHANGED <<exportRest, libraryVars>>)

LibrarySpec == LInit /\ [][LNext]_vars

\* ---- the AuthProvider on its own
authRest == <<extractVars, transcribeVars, sessionVars, exportVars, uploadVars, viewVars,
              workflowVars, libraryVars>>

AInit ==
  /\ ExportInit
  /\ UploadInit
  /\ ViewInit
  /\ WorkflowInit
  /\ LibraryInit
  /\ \E stored \in Sessions : AuthInit(stored)
  /\ SessionInit(60, Bytes(10, 0))
  /\ ExtractInit(TRUE, {"audio/webm"}, FALSE, Bytes(100, 0))
  /\ TranscribeInit(Bytes(1, 0), [hasProgressCallback |-> TRUE, duration |-> 0], {FALSE})

ANext ==
  \/ (\E throws \in BOOLEAN : AuthCallSettles(throws) /\ UNCHANGED authRest)
  \/ (AfterGetCurrentSession /\ UNCHANGED authRest)
  \/ (AfterGetCurrentUser /\ UNCHANGED authRest)
  \/ (\E currentSession \in Sessions : AuthStateChange(currentSession) /\ UNCHANGED authRest)
  \/ (signOut /\ UNCHANGED authRest)
  \/ (SignOutClears /\ UNCHANGED authRest)
  \/ (SignOutResolves /\ UNCHANGED authRest)
  \/ (SignOutThrows /\ UNCHANGED authRest)

AuthSpec == AInit /\ [][ANext]_vars

\* ---- a session in which the user declines the extraction and runs the
\* whole workflow: extraction for the page, transcription, finalize
WInit ==
  /\ ExportInit
  /\ ShellInit
  /\ \E codecs \in CodecEnvs, loaded \in BOOLEAN :
       ExtractInit(TRUE, codecs, loaded, Bytes(100, 0))
  /\ TranscribeInit(Bytes(0, 0), [hasProgressCallback |-> TRUE, duration |-> 0], {FALSE})
  /\ \E in \in SessionInputs : SessionInit(in[1], in[2])

WNext ==
  \/ (Mount /\ UNCHANGED <<transcribeVars, sessionVars, exportVars, shellVars>>)
  \/ (cancelCompression /\ UNCHANGED <<exportVars, shellVars>>)
  \/ (handleMetadataLoaded /\ UNCHANGED <<exportVars, shellVars>>)
  \/ (\E setupThrows \in BOOLEAN :
        /\ videoDuration # 0
        /\ StartTranscriptionRun(setupThrows)
        /\ UNCHANGED <<exportVars, uploadVars, viewVars, libraryVars, authVars>>)
  \/ (ExtractionStep /\ UNCHANGED <<exportVars, uploadVars, viewVars, libraryVars, authVars>>)
  \/ (ExtractionResolved /\ UNCHANGED <<exportVars, uploadVars, viewVars, libraryVars, authVars>>)
  \/ (ExtractionRejected /\ UNCHANGED <<exportVars, uploadVars, viewVars, libraryVars, authVars>>)
  \/ (TranscriptionStep /\ UNCHANGED <<exportVars, uploadVars, viewVars, libraryVars, authVars>>)
  \/ (FinishTimer /\ UNCHANGED <<exportVars, shellVars>>)

WorkflowSpec == WInit /\ [][WNext]_vars

\* ---- the upload component on its own
UInit ==
  /\ ExportInit
  /\ ShellInit
  /\ SessionInit(60, Bytes(10, 0))
  /\ ExtractInit(TRUE, {"audio/webm"}, FALSE, Bytes(100, 0))
  /\ TranscribeInit(Bytes(1, 0), [hasProgressCallback |-> TRUE, duration |-> 0], BOOLEAN)

pipelineVars == <<extractVars, transcribeVars, sessionVars, exportVars, viewVars, workflowVars,
                  libraryVars, authVars>>

UNext ==
  \/ (handleDragOver /\ UNCHANGED pipelineVars)
  \/ (handleDragLeave /\ UNCHANGED pipelineVars)
  \/ (\E files \in FileLists : handleDrop(files) /\ UNCHANGED pipelineVars)
  \/ (\E files \in FileLists : handleFileSelect(files) /\ UNCHANGED pipelineVars)
  \/ (WarningTimer /\ UNCHANGED pipelineVars)
  \/ (\E k \in 1..Len(uploads), runs \in BOOLEAN : UploadTick(k, runs) /\ UNCHANGED pipelineVars)
  \/ (\E k \in 1..Len(uploads) : UploadTimer(k) /\ UNCHANGED pipelineVars)

UploadSpec == UInit /\ [][UNext]_vars

\* ------------------------------------------------------------------- claims
LastPercent == events[Len(events)].percent

\* The native extraction has failed: its promise was rejected, or the media
\* element reported an error.
NativeFailed == nativePromise = "rejected" \/ videoState = "error"

\* C1: the percent values delivered to the progress callback during one
\* extractAudioOnly run never decrease.
C1_ProgressNonDecreasing ==
  \A i \in 1..(Len(events) - 1) : events[i].percent <= events[i + 1].percent

\* C2: whenever the native path has failed, the engine extraction has been
\* started exactly once, and an engine success is what the caller receives,
\* without an exception.
C2_FallbackOnEveryNativeFailure ==
  /\ NativeFailed => engineRuns = 1
  /\ engineState = "done" => (callState = "returned" /\ result = "engine")

\* C3: a pending extractAudioOnly call eventually returns a blob or fails
\* with an error.
C3_CallSettles ==
  (callState = "pending") ~> (callState \in {"returned", "threw"})

\* C4: the segment ids of a chunked run's result are exactly 1, 2, ..., total
\* in sequence order.
C4_ChunkedIdsSequential ==
  (trState = "done" /\ trMode = "chunked") =>
    \A k \in 1..Len(trResult) : trResult[k].id = k

\* C5: transcribeAudio uses chunked mode exactly when the payload is larger
\* than 25MB, whatever the options are, and direct mode otherwise.
C5_ChunkedIffLarge ==
  trMode # "none" => (trMode = "chunked" <=> isLargeAudio(audioBlob))

\* C6: the native path runs only when the capability probe returns true;
\* with a false probe only the engine path is attempted.
C6_NativeOnlyWhenProbeTrue ==
  nativeRuns > 0 => isCompressionSupported

\* C7: once the engine fallback has started, the native path no longer
\* records and no longer polls the playback position.
C7_OneStrategyActive ==
  engineRuns > 0 => (~intervalActive /\ recorderState # "recording" /\ ~stopTimer)

\* C8: after a successful extractAudioOnly run the last progress event is
\* percent 100, and no further progress event is delivered.
C8_FinalProgressIs100 ==
  /\ [](callState = "returned" => (events # <<>> /\ LastPercent = 100))
  /\ [][callState = "returned" => events' = events]_vars

\* A successful fallback run whose leaked polling interval is still armed.
C8_Witness ==
  callState = "returned" /\ result = "engine" /\ LastPercent = 100 /\ intervalActive

\* C9: an engine failure after the native failure reaches the caller as an
\* error, and one call runs the native path and the engine path at most once.
C9_EngineFailureIsTerminal ==
  /\ nativeRuns <= 1
  /\ engineRuns <= 1
  /\ engineState = "failed" => (callState = "threw" /\ nativePromise = "rejected")
  /\ callState = "threw" => (engineState = "failed" /\ engineRuns = 1)

C9_Witness ==
  engineState = "failed" /\ callState = "threw" /\ nativeRuns = 1 /\ engineRuns = 1

\* C10 as stated: for a 600MB input the recommended settings are
\* Medium / 1280x720 / 30fps / 128k.
C10_Medium600MB ==
  (mounted /\ videoFile = Bytes(600, 0)) =>
    compressionSettings = Settings("medium", 1280, 720, 30, "128k")

\* C10 amended: for a 600MB input the recommended settings are
\* High / 1920x1080 / 30fps / 192k.
C10_High600MB ==
  (mounted /\ videoFile = Bytes(600, 0)) =>
    compressionSettings = Settings("high", 1920, 1080, 30, "192k")

C10_Witness ==
  mounted /\ videoFile = Bytes(600, 0) /\ compressionSettings # DefaultCompressionSettings

\* The size is at most mb megabytes.
AtMost(size, mb) == size.mb < mb \/ (size.mb = mb /\ size.lo = 0)

\* C11: the recommended settings are Low/854x480/24/96k above 4GB,
\* Low/1280x720/24/128k above 2GB and at most 4GB, Medium/1280x720/30/128k
\* above 1GB and at most 2GB, and High/1920x1080/30/192k at or below 1GB.
C11_StepFunction ==
  mounted =>
    /\ ~AtMost(videoFile, 4096) =>
          compressionSettings = Settings("low", 854, 480, 24, "96k")
    /\ (~AtMost(videoFile, 2048) /\ AtMost(videoFile, 4096)) =>
          compressionSettings = Settings("low", 1280, 720, 24, "128k")
    /\ (~AtMost(videoFile, 1024) /\ AtMost(videoFile, 2048)) =>
          compressionSettings = Settings("medium", 1280, 720, 30, "128k")
    /\ AtMost(videoFile, 1024) =>
          compressionSettings = Settings("high", 1920, 1080, 30, "192k")

\* The settings computed for a file of exactly 4GB, the upper boundary.
C11_Witness ==
  /\ mounted
  /\ videoFile = Bytes(4096, 0)
  /\ compressionSettings = Settings("low", 1280, 720, 24, "128k")

\* a <= b on Numbers
NumLeq(a, b) == ~NumLess(b, a)

\* The segments accumulated by a chunked run, also while it is under way.
ChunkedSegments == IF trState = "done" THEN trResult ELSE chunks

\* C12: in a chunked run, at every chunk boundary the first segment of the
\* next chunk starts at or after the endTime of the last segment of the
\* chunk before it.
C12_ChunkBoundariesOrdered ==
  trMode = "chunked" =>
    \A k \in 1..(Len(ChunkedSegments) - 1) :
      NumLeq(ChunkedSegments[k].endTime, ChunkedSegments[k + 1].startTime)

\* C13: for a 60MB payload with a duration of 120s, transcribeAudio runs in
\* chunked mode with 3 chunks, and the endTime of the last returned segment
\* is 120s to within a second.
C13_Scenario120Covered ==
  (/\ trState = "done"
   /\ audioBlob = Bytes(60, 0)
   /\ options = [hasProgressCallback |-> TRUE, duration |-> 120]) =>
    /\ trMode = "chunked"
    /\ totalChunks = 3
    /\ trResult # <<>>
    /\ NumLeq(FromInt(119), trResult[Len(trResult)].endTime)
    /\ NumLeq(trResult[Len(trResult)].endTime, FromInt(121))

C18_ReleasedOnEveryExit ==
  nativePromise \in {"resolved", "rejected"} => (~urlLive /\ audioCtx # "open")

\* C19: handleExportAll attempts every enabled item and collects exactly one
\* result per enabled item, in order, each marked with that item's own
\* outcome; a failed export does not stop the later ones.
C19_OneResultPerEnabledItem ==
  /\ pendingExport > 0 =>
       /\ Len(results) = pendingExport - 1
       /\ Len(outcomes) = pendingExport - 1
  /\ (pendingExport = 0 /\ exportRuns > 0) =>
       /\ Len(outcomes) = Len(enabledExports)
       /\ results = [k \in 1..Len(enabledExports) |->
                       ExportResult(enabledExports[k], outcomes[k])]
       /\ exportResults \in {results, <<>>}
  /\ \A k \in 1..Len(results) :
       /\ results[k].type = enabledExports[k].type
       /\ results[k].success = outcomes[k]

\* Three exports of which the first failed and the later ones succeeded.
C19_Witness ==
  /\ Len(exportResults) = 3
  /\ ~exportResults[1].success
  /\ exportResults[2].success
  /\ exportResults[3].success

\* The segments of data are well formed and in order: each starts before it
\* ends, and each ends no later than the next one starts.
Ordered(data) ==
  /\ \A k \in 1..Len(data) : NumLess(data[k].startTime, data[k].endTime)
  /\ \A k \in 1..(Len(data) - 1) : NumLeq(data[k].endTime, data[k + 1].startTime)

\* The timing of a segment.
Timing(seg) == <<seg.startTime, seg.endTime>>

\* C14: after any sequence of transcription runs and edits, every segment of
\* the transcript has startTime < endTime, consecutive segments satisfy
\* endTime <= startTime of the next, and edits keep the order.
C14_SegmentsOrdered ==
  /\ Ordered(transcriptionData)
  /\ Ordered(editedData)
  /\ Len(editedData) = Len(transcriptionData)
  /\ \A k \in 1..Len(editedData) : Timing(editedData[k]) = Timing(transcriptionData[k])

\* C15: saving an edit sets the text of the one segment being edited to the
\* text of the edit box and changes nothing else.
C15_EditChangesOneSegment ==
  [][edits' = edits + 1 =>
       \E k \in 1..Len(editedData) :
         /\ editedData[k].id = editingId
         /\ editedData' = [editedData EXCEPT ![k].text = editText]]_vars

\* C16: the transcript of the page changes only when a transcription run
\* completes, and then to the whole result of that run; a run that fails
\* leaves the transcript and the panel's copy as they were.
C16_ReplacedOnlyOnSuccess ==
  /\ [][transcriptionData' # transcriptionData =>
          (trState' = "done" /\ trState # "done" /\ transcriptionData' = trResult')]_vars
  /\ [][(pageError = "null" /\ pageError' # "null") =>
          (transcriptionData' = transcriptionData /\ editedData' = editedData)]_vars

\* A run failed after an earlier run had delivered a transcript, which is
\* still there.
C16_Witness ==
  /\ pageError # "null"
  /\ transcriptionRuns = 2
  /\ pagePhase = "idle"
  /\ transcriptionData # <<>>
  /\ transcriptionData = trResult

\* Extraction runs in flight: the one the compression component started and
\* the one startTranscription started.
ExtractionRunsInFlight ==
  (IF callState = "pending" THEN 1 ELSE 0) + (IF pagePhase = "extracting" THEN 1 ELSE 0)

\* C17: at every moment at most one extraction run is in flight, and a
\* transcription run is in flight only while the page is transcribing, which
\* keeps the start button disabled.
C17_OneRunInFlight ==
  /\ ExtractionRunsInFlight <= 1
  /\ pagePhase # "idle" => isTranscribing

\* The file is one the upload boundary may accept.
Acceptable(file) == IsVideoType(file) /\ ~SizeGT(file.size, MaxSizeMB)

C28_UploadSuperseded ==
  /\ uploadProgress <= 100
  /\ Len(uploadedFiles) <= 1
  /\ \A k \in 1..Len(uploadedFiles) : uploadedFiles[k] = uploads[Len(uploads)].file

\* C22: for the page's currentTime the player shows the first segment, in
\* sequence order, with startTime <= currentTime <= endTime, and none when
\* no segment contains it, as for a time past the end of the last segment.
C22_FirstContainingSegment ==
  LET shown == getCurrentTranscription(transcriptionData, playerTime)
      Contains(k) == /\ NumLeq(transcriptionData[k].startTime, playerTime)
                     /\ NumLeq(playerTime, transcriptionData[k].endTime)
  IN /\ shown \in 0..Len(transcriptionData)
     /\ shown = 0 <=> \A k \in 1..Len(transcriptionData) : ~Contains(k)
     /\ shown # 0 => (Contains(shown) /\ \A j \in 1..(shown - 1) : ~Contains(j))
     /\ (/\ transcriptionData # <<>>
         /\ NumLess(transcriptionData[Len(transcriptionData)].endTime, playerTime)
         /\ \A k \in 1..Len(transcriptionData) :
              NumLeq(transcriptionData[k].endTime,
                     transcriptionData[Len(transcriptionData)].endTime)) => shown = 0

\* The time is the boundary shared by the first two segments, and the first
\* of them is shown.
C22_Witness ==
  /\ Len(transcriptionData) >= 2
  /\ playerTime = transcriptionData[1].endTime
  /\ playerTime = transcriptionData[2].startTime
  /\ getCurrentTranscription(transcriptionData, playerTime) = 1

\* The words of a text contain the words of term, whatever their case.
ContainsIgnoringCase(text, term) ==
  LET SameWord(a, b) ==
        \/ a = b
        \/ \E low \in {"welcome", "today", "our", "video"} :
             /\ a \in {low} \cup {w \in DOMAIN LowerCased : LowerCased[w] = low}
             /\ b \in {low} \cup {w \in DOMAIN LowerCased : LowerCased[w] = low}
      words == Words(text)
  IN \E off \in 0..(Len(words) - Len(term)) :
       \A i \in 1..Len(term) : SameWord(words[off + i], term[i])

\* The items of data at the positions in pos, in the order of data.
ItemsAt(data, pos) ==
  [i \in 1..Cardinality(pos) |->
     data[CHOOSE k \in pos : Cardinality({j \in pos : j < k}) = i - 1]]

\* C23: the search shows exactly the segments whose text contains the term
\* ignoring case, in their original order; the empty term shows the whole
\* set; and a change of the search term leaves the transcript as it was.
C23_SearchFilters ==
  /\ [](filteredData(editedData, searchTerm) =
          ItemsAt(editedData, {k \in 1..Len(editedData) :
                                 ContainsIgnoringCase(editedData[k].text, searchTerm)}))
  /\ [](searchTerm = <<>> => filteredData(editedData, searchTerm) = editedData)
  /\ [][searchTerm' # searchTerm =>
          (editedData' = editedData /\ transcriptionData' = transcriptionData)]_vars

\* After an edit, a term in small letters finds the segment that starts
\* with a capital and leaves the edited one out.
C23_Witness ==
  /\ searchTerm = <<"today">>
  /\ edits > 0
  /\ Len(filteredData(editedData, searchTerm)) \in 1..(Len(editedData) - 1)
  /\ \E k \in 1..Len(editedData) : editedData[k].text = TypedText

\* C24: from the start of a workflow run on, the percentage the page shows
\* never decreases.
C24_PageProgressNonDecreasing ==
  \A k \in 1..(Len(progressLog) - 1) : progressLog[k] <= progressLog[k + 1]

\* The quality tiers in their order: low < medium < high.
Tier(settings) ==
  CASE settings.quality = "low" -> 1
    [] settings.quality = "medium" -> 2
    [] settings.quality = "high" -> 3
    [] OTHER -> 0

\* a <= b on sizes
SizeLeq(a, b) == a.mb < b.mb \/ (a.mb = b.mb /\ a.lo <= b.lo)

\* C25: getRecommendedCompressionSettings yields a tier for every size, the
\* same one whenever the size is the same, and never a higher tier for a
\* larger size: the tier recommended for the mounted file is at most that
\* of every smaller size and at least that of every larger one.
C25_TierMonotone ==
  /\ \A size \in FileSizes : Tier(getRecommendedCompressionSettings(size)) \in 1..3
  /\ mounted =>
       /\ compressionSettings = getRecommendedCompressionSettings(videoFile)
       /\ \A size \in FileSizes :
            /\ SizeLeq(size, videoFile) =>
                 Tier(compressionSettings) <= Tier(getRecommendedCompressionSettings(size))
            /\ SizeLeq(videoFile, size) =>
                 Tier(getRecommendedCompressionSettings(size)) <= Tier(compressionSettings)

\* A file of 5GB, the largest size, got the lowest tier.
C25_Witness ==
  /\ mounted
  /\ videoFile = Bytes(5 * 1024, 0)
  /\ Tier(compressionSettings) = 1

\* C26: once the user has cancelled the processing step, the page keeping
\* the original asset, no extraction run that completes later replaces the
\* asset or switches the session to audio-only mode.
C26_CancelledResultNotApplied ==
  [][(~showCompressionOption /\ pageAsset = "original") =>
       (pageAsset' = "original" /\ isAudioOnly' = isAudioOnly)]_vars

\* C27: every save to the library and every export hands over the
\* transcript as the panel holds it, edited texts included.
C27_EditedTextSavedAndExported ==
  /\ [][saveCall' = "getUser" => savePayload' = editedData]_vars
  /\ [][exportRuns' = exportRuns + 1 => exportData' = editedData]_vars

\* The rows of the segment table that belong to the record id.
RowsOf(id) ==
  LET Belongs(row) == row.transcription_id = id
  IN SelectSeq(segmentRows, Belongs)

\* The saveTranscription calls that resolved.
ResolvedSaves ==
  LET Resolved(o) == o = "resolved"
  IN Len(SelectSeq(saveOutcomes, Resolved))

\* C29: when no save is in flight, the store holds one record per save that
\* resolved and none for a save that failed, and every record has its
\* segment rows.
C29_SaveAllOrNothing ==
  saveCall = "idle" =>
    /\ Len(transcriptions) = ResolvedSaves
    /\ \A k \in 1..Len(transcriptions) : RowsOf(transcriptions[k].id) # <<>>

\* C30: in every reachable state of the AuthProvider a user that is not
\* null comes with a session that is not null.
C30_UserImpliesSession == user # "null" => session # "null"

====
